---- MODULE Spec2Model ----
(***************************************************************************)
(* Verification model of the sif directed-graph library: the dense         *)
(* adjacency-list representations, the depth-first traversal iterator,     *)
(* the decrease-key binary heap and Dijkstra's algorithm.                  *)
(*                                                                         *)
(* Handles (Index) are 0-based naturals as in the source; TLA+ sequences   *)
(* are 1-based, so slot i of a Vec is element i + 1 of the sequence.       *)
(* Option<T> is modelled as a sequence: None is <<>>, Some(x) is <<x>>.    *)
(***************************************************************************)
EXTENDS Integers, Sequences, FiniteSets, TLC

VARIABLES g, adj, df, item, events, costs, v0, queue, distances, cur, popped, pc,
          ret, passed, live, maps

vars == <<g, adj, df, item, events, costs, v0, queue, distances, cur, popped, pc,
          ret, passed, live, maps>>

graphVars == <<g, adj>>

dfVars == <<df, item, events>>

djVars == <<costs, v0, queue, distances, cur, popped, pc>>

hpVars == <<ret, passed>>

mutVars == <<live, maps>>

(***************************************************************************)
(* Bounds of the explored inputs.                                          *)
(***************************************************************************)
MaxVerts == 3

\* Edges of a traversed graph.
MaxEdges == 2

\* Edges of a graph given to Dijkstra.
DjMaxEdges == 3

\* Edge costs offered to Dijkstra (all non-negative).
CostValues == {0, 1, 3}

\* A complete traversal emits two events per vertex and at most two per edge.
MaxEvents == 2 * (MaxVerts + MaxEdges) + 1

(***************************************************************************)
(* Option<T>                                                               *)
(***************************************************************************)
None == <<>>

Some(x) == <<x>>

IsSome(o) == o # <<>>

Unwrap(o) == o[1]

(***************************************************************************)
(* dense::Domain and dense::Map                                            *)
(***************************************************************************)
\* Domain::insert: the key is the previous length, the value is appended.
DomainInsert(values, value) == [key |-> Len(values), values |-> Append(values, value)]

\* Domain::keys: the contiguous range 0 .. len-1 in order.
DomainKeys(values) == [i \in 1..Len(values) |-> i - 1]

\* Map::with_capacity: no stored values, only the default.
MapWithCapacity(default) == [values |-> <<>>, default |-> default]

\* Map::get: the stored value or the default, never growing the storage.
MapGet(m, k) == IF k < Len(m.values) THEN m.values[k + 1] ELSE m.default

\* A get_mut that resizes up to index k - 1 only and does not write beyond.
MapSet_ShortResize(m, k, x) ==
  LET grown == IF k >= Len(m.values)
               THEN m.values \o [i \in 1..(k - Len(m.values)) |-> m.default]
               ELSE m.values
  IN  [m EXCEPT !.values = IF k < Len(grown) THEN [grown EXCEPT ![k + 1] = x] ELSE grown]

\* MapMut::get_mut followed by an assignment through the returned reference:
\* the storage is resized with clones of the default up to index k.
MapSet(m, k, x) ==
  LET grown == IF k >= Len(m.values)
               THEN m.values \o [i \in 1..(k + 1 - Len(m.values)) |-> m.default]
               ELSE m.values
  IN  [m EXCEPT !.values = [grown EXCEPT ![k + 1] = x]]

(***************************************************************************)
(* sparse::Domain: a HashMap from the live keys to their values (a         *)
(* function here), the free list and the counter of keys allocated.        *)
(***************************************************************************)
\* HashMap::insert and HashMap::remove.
Put(f, k, x) == [j \in (DOMAIN f) \cup {k} |-> IF j = k THEN x ELSE f[j]]

Without(f, k) == [j \in (DOMAIN f) \ {k} |-> f[j]]

\* sparse::Map::new / with_capacity: no stored values, only the default.
SparseMapNew(default) == [values |-> Without(<<>>, 0), default |-> default]

\* sparse::Map::get: the stored value or the default.
SparseMapGet(m, k) == IF k \in DOMAIN m.values THEN m.values[k] ELSE m.default

\* A get_mut that stores nothing when the key has no entry yet.
SparseMapSet_IfPresent(m, k, x) ==
  IF k \in DOMAIN m.values THEN [m EXCEPT !.values = Put(@, k, x)] ELSE m

\* sparse::MapMut::get_mut followed by an assignment through the returned
\* reference: the entry is created with a clone of the default, then written.
SparseMapSet(m, k, x) ==
  LET entry == IF k \in DOMAIN m.values THEN m.values ELSE Put(m.values, k, m.default)
  IN  [m EXCEPT !.values = Put(entry, k, x)]

\* Domain::default
SparseDomainNew == [values |-> Without(<<>>, 0), free |-> <<>>, next |-> 0]

\* A Domain::insert that takes the counter as the key without bumping it.
SparseDomainInsert_NoBump(d, value) ==
  LET reuse == d.free # <<>>
      key == IF reuse THEN d.free[Len(d.free)] ELSE d.next
      rest == IF reuse THEN [d EXCEPT !.free = SubSeq(@, 1, Len(@) - 1)] ELSE d
  IN  [key |-> key,
       ok |-> key \notin DOMAIN d.values,
       d |-> [rest EXCEPT !.values = Put(@, key, value)]]

\* A Domain::insert that reads the last freed key and leaves it on the free
\* list.
SparseDomainInsert_KeepsFree(d, value) ==
  LET reuse == d.free # <<>>
      key == IF reuse THEN d.free[Len(d.free)] ELSE d.next
      rest == IF reuse THEN d ELSE [d EXCEPT !.next = @ + 1]
  IN  [key |-> key,
       ok |-> key \notin DOMAIN d.values,
       d |-> [rest EXCEPT !.values = Put(@, key, value)]]

\* Domain::insert: the key is popped off the free list or, when the list is
\* empty, taken from the counter, which is bumped; ok is FALSE when the debug
\* assertion "key not unique" fails.
SparseDomainInsert(d, value) ==
  LET reuse == d.free # <<>>
      key == IF reuse THEN d.free[Len(d.free)] ELSE d.next
      rest == IF reuse THEN [d EXCEPT !.free = SubSeq(@, 1, Len(@) - 1)]
              ELSE [d EXCEPT !.next = @ + 1]
  IN  [key |-> key,
       ok |-> key \notin DOMAIN d.values,
       d |-> [rest EXCEPT !.values = Put(@, key, value)]]

\* A Domain::remove that frees the key and leaves its entry in the HashMap.
SparseDomainRemove_KeepsEntry(d, key) ==
  IF key \in DOMAIN d.values
  THEN [ok |-> TRUE, value |-> Some(d.values[key]),
        d |-> [d EXCEPT !.free = Append(@, key)]]
  ELSE [ok |-> FALSE, value |-> None, d |-> d]

\* A remove that pushes the key on the free list before it looks for the
\* entry.
SparseDomainRemove_PushesFirst(d, key) ==
  IF key \in DOMAIN d.values
  THEN [ok |-> TRUE, value |-> Some(d.values[key]),
        d |-> [d EXCEPT !.values = Without(@, key), !.free = Append(@, key)]]
  ELSE [ok |-> FALSE, value |-> None, d |-> [d EXCEPT !.free = Append(@, key)]]

\* Domain::remove: the entry is removed and the key pushed on the free list;
\* ok is FALSE when expect("key in domain") panics.
SparseDomainRemove(d, key) ==
  IF key \in DOMAIN d.values
  THEN [ok |-> TRUE, value |-> Some(d.values[key]),
        d |-> [d EXCEPT !.values = Without(@, key), !.free = Append(@, key)]]
  ELSE [ok |-> FALSE, value |-> None, d |-> d]

\* The elements of a HashMap's key set or of a HashSet as they are iterated:
\* the order is the hasher's; ascending stands for it where nothing depends
\* on the order.
RECURSIVE Ascending(_)
Ascending(S) ==
  IF S = {} THEN <<>>
  ELSE LET m == CHOOSE x \in S : \A y \in S : x <= y
       IN  <<m>> \o Ascending(S \ {m})

\* Domain::keys
SparseDomainKeys(d) == Ascending(DOMAIN d.values)

(***************************************************************************)
(* The representations: Dense{Out,In,Bi}AdjacencyList over dense domains,  *)
(* Sparse{EdgeList,Out,In}AdjacencyList over dense vertices and sparse     *)
(* edges, SparseBiAdjacencyList over sparse vertices and sparse edges.     *)
(***************************************************************************)
VertsSparse(repr) == repr = "SparseBi"

EdgesSparse(repr) == repr \in {"SparseEdge", "SparseOut", "SparseIn", "SparseBi"}

\* Default::default() of the value stored with a vertex: a Vec of edges, a
\* pair of Vecs, the unit, a HashSet of edges or a pair of HashSets.
DefaultVert(repr) ==
  CASE repr \in {"DenseOut", "DenseIn"} -> <<>>
    [] repr = "DenseBi" -> <<<<>>, <<>>>>
    [] repr = "SparseEdge" -> <<>>
    [] repr \in {"SparseOut", "SparseIn"} -> {}
    [] repr = "SparseBi" -> <<{}, {}>>

\* InsertGraph::new / Default: both domains empty.
NewGraph(repr) ==
  [repr |-> repr,
   verts |-> IF VertsSparse(repr) THEN SparseDomainNew ELSE <<>>,
   edges |-> IF EdgesSparse(repr) THEN SparseDomainNew ELSE <<>>]

\* self.verts[v] and self.edges[e]
VertValue(gr, v) == IF VertsSparse(gr.repr) THEN gr.verts.values[v] ELSE gr.verts[v + 1]

EdgeValue(gr, e) == IF EdgesSparse(gr.repr) THEN gr.edges.values[e] ELSE gr.edges[e + 1]

\* An assignment through self.verts[v].
WithVertValue(gr, v, x) ==
  IF VertsSparse(gr.repr) THEN [gr EXCEPT !.verts.values[v] = x]
  ELSE [gr EXCEPT !.verts[v + 1] = x]

\* insert_vert: verts.insert_default(), with the handle returned.
InsertVertResult(gr) ==
  IF VertsSparse(gr.repr)
  THEN LET ins == SparseDomainInsert(gr.verts, DefaultVert(gr.repr))
       IN  [key |-> ins.key, ok |-> ins.ok, g |-> [gr EXCEPT !.verts = ins.d]]
  ELSE LET ins == DomainInsert(gr.verts, DefaultVert(gr.repr))
       IN  [key |-> ins.key, ok |-> TRUE, g |-> [gr EXCEPT !.verts = ins.values]]

InsertVert(gr) == InsertVertResult(gr).g

\* A slip that files the new edge under its head instead of its tail.
DenseOutInsertEdge_AtHead(gr, tail, head) ==
  LET e == Len(gr.edges)
  IN  [gr EXCEPT !.edges = Append(@, <<tail, head>>),
                 !.verts[head + 1] = Append(@, e)]

\* DenseOutAdjacencyList::insert_edge: the edge is pushed on verts[tail].
DenseOutInsertEdge(gr, tail, head) ==
  LET ins == DomainInsert(gr.edges, <<tail, head>>)
  IN  [gr EXCEPT !.edges = ins.values,
                 !.verts[tail + 1] = Append(@, ins.key)]

\* DenseInAdjacencyList::insert_edge: the edge is pushed on verts[head].
DenseInInsertEdge(gr, tail, head) ==
  LET ins == DomainInsert(gr.edges, <<tail, head>>)
  IN  [gr EXCEPT !.edges = ins.values,
                 !.verts[head + 1] = Append(@, ins.key)]

\* An edges.insert that stores the pair the other way round.
EdgesInsert_Swapped(gr, tail, head) ==
  IF EdgesSparse(gr.repr)
  THEN LET ins == SparseDomainInsert(gr.edges, <<head, tail>>)
       IN  [key |-> ins.key, ok |-> ins.ok, g |-> [gr EXCEPT !.edges = ins.d]]
  ELSE LET ins == DomainInsert(gr.edges, <<head, tail>>)
       IN  [key |-> ins.key, ok |-> TRUE, g |-> [gr EXCEPT !.edges = ins.values]]

\* let e = self.edges.insert((tail, head)), on either kind of domain.
EdgesInsert(gr, tail, head) ==
  IF EdgesSparse(gr.repr)
  THEN LET ins == SparseDomainInsert(gr.edges, <<tail, head>>)
       IN  [key |-> ins.key, ok |-> ins.ok, g |-> [gr EXCEPT !.edges = ins.d]]
  ELSE LET ins == DomainInsert(gr.edges, <<tail, head>>)
       IN  [key |-> ins.key, ok |-> TRUE, g |-> [gr EXCEPT !.edges = ins.values]]

\* DenseBiAdjacencyList::insert_edge: pushed on verts[tail].0, then on
\* verts[head].1.
DenseBiInsertEdge(gr, tail, head) ==
  LET ins == EdgesInsert(gr, tail, head)
      g1 == WithVertValue(ins.g, tail,
              <<Append(VertValue(ins.g, tail)[1], ins.key), VertValue(ins.g, tail)[2]>>)
      g2 == WithVertValue(g1, head,
              <<VertValue(g1, head)[1], Append(VertValue(g1, head)[2], ins.key)>>)
  IN  [key |-> ins.key, ok |-> TRUE, g |-> g2]

\* SparseEdgeList::insert_edge
SparseEdgeInsertEdge(gr, tail, head) == EdgesInsert(gr, tail, head)

\* SparseOutAdjacencyList::insert_edge: inserted in the set of verts[tail];
\* ok is FALSE when a debug assertion fails.
SparseOutInsertEdge(gr, tail, head) ==
  LET ins == EdgesInsert(gr, tail, head)
  IN  [key |-> ins.key,
       ok |-> ins.ok /\ ins.key \notin VertValue(ins.g, tail),
       g |-> WithVertValue(ins.g, tail, VertValue(ins.g, tail) \cup {ins.key})]

\* SparseInAdjacencyList::insert_edge: inserted in the set of verts[head].
SparseInInsertEdge(gr, tail, head) ==
  LET ins == EdgesInsert(gr, tail, head)
  IN  [key |-> ins.key,
       ok |-> ins.ok /\ ins.key \notin VertValue(ins.g, head),
       g |-> WithVertValue(ins.g, head, VertValue(ins.g, head) \cup {ins.key})]

\* SparseBiAdjacencyList::insert_edge: inserted in verts[tail].0 and then
\* in verts[head].1.
SparseBiInsertEdge(gr, tail, head) ==
  LET ins == EdgesInsert(gr, tail, head)
      g1 == WithVertValue(ins.g, tail,
              <<VertValue(ins.g, tail)[1] \cup {ins.key}, VertValue(ins.g, tail)[2]>>)
      g2 == WithVertValue(g1, head,
              <<VertValue(g1, head)[1], VertValue(g1, head)[2] \cup {ins.key}>>)
  IN  [key |-> ins.key,
       ok |-> /\ ins.ok
              /\ ins.key \notin VertValue(ins.g, tail)[1]
              /\ ins.key \notin VertValue(g1, head)[2],
       g |-> g2]

\* insert_edge of the representation, with the handle returned.
InsertEdgeResult(gr, tail, head) ==
  CASE gr.repr = "DenseOut" ->
         [key |-> Len(gr.edges), ok |-> TRUE, g |-> DenseOutInsertEdge(gr, tail, head)]
    [] gr.repr = "DenseIn" ->
         [key |-> Len(gr.edges), ok |-> TRUE, g |-> DenseInInsertEdge(gr, tail, head)]
    [] gr.repr = "DenseBi" -> DenseBiInsertEdge(gr, tail, head)
    [] gr.repr = "SparseEdge" -> SparseEdgeInsertEdge(gr, tail, head)
    [] gr.repr = "SparseOut" -> SparseOutInsertEdge(gr, tail, head)
    [] gr.repr = "SparseIn" -> SparseInInsertEdge(gr, tail, head)
    [] gr.repr = "SparseBi" -> SparseBiInsertEdge(gr, tail, head)

InsertEdge(gr, tail, head) == InsertEdgeResult(gr, tail, head).g

(***************************************************************************)
(* Immutable{Out,In}AdjacencyList: outs (ins) maps each vertex to the      *)
(* first edge that has it as tail (head) and has one more element, the     *)
(* number of edges; heads (tails) maps each edge to its other endpoint.    *)
(***************************************************************************)
IsImmutable(repr) == repr \in {"ImmutableOut", "ImmutableIn"}

ImmOffsets(gr) == IF gr.repr = "ImmutableOut" THEN gr.outs ELSE gr.ins

ImmOthers(gr) == IF gr.repr = "ImmutableOut" THEN gr.heads ELSE gr.tails

\* slice::partition_point(|q| *q <= e) by binary search between lo and hi:
\* the index of the first element above e when the slice is sorted.
RECURSIVE PartitionPoint(_, _, _, _)
PartitionPoint(values, e, lo, hi) ==
  IF lo >= hi THEN lo
  ELSE LET mid == lo + ((hi - lo) \div 2)
       IN  IF values[mid + 1] <= e
           THEN PartitionPoint(values, e, mid + 1, hi)
           ELSE PartitionPoint(values, e, lo, mid)

\* _tail of the out-list and _head of the in-list
ImmNear(gr, e) == PartitionPoint(ImmOffsets(gr), e, 0, Len(ImmOffsets(gr))) - 1

\* _endpoints
ImmEndpoints(gr, e) ==
  IF gr.repr = "ImmutableOut"
  THEN <<ImmNear(gr, e), gr.heads[e + 1]>>
  ELSE <<gr.tails[e + 1], ImmNear(gr, e)>>

\* verts(): 0 .. outs.len() - 1
ImmVerts(gr) == [i \in 1..(Len(ImmOffsets(gr)) - 1) |-> i - 1]

\* edges(): heads.keys()
ImmEdges(gr) == DomainKeys(ImmOthers(gr))

\* _out_edges and _in_edges: outs[v] .. outs[v + 1]
ImmAdjEdges(gr, v) ==
  LET start == ImmOffsets(gr)[v + 1]
      end == ImmOffsets(gr)[v + 2]
  IN  [i \in 1..(end - start) |-> start + i - 1]

\* Digraph::endpoints, tail and head.
Endpoints(gr, e) == IF IsImmutable(gr.repr) THEN ImmEndpoints(gr, e) ELSE EdgeValue(gr, e)

TailOf(gr, e) == Endpoints(gr, e)[1]

HeadOf(gr, e) == Endpoints(gr, e)[2]

\* Digraph::verts and Digraph::edges.
Verts(gr) ==
  CASE IsImmutable(gr.repr) -> ImmVerts(gr)
    [] VertsSparse(gr.repr) -> SparseDomainKeys(gr.verts)
    [] OTHER -> DomainKeys(gr.verts)

Edges(gr) ==
  CASE IsImmutable(gr.repr) -> ImmEdges(gr)
    [] EdgesSparse(gr.repr) -> SparseDomainKeys(gr.edges)
    [] OTHER -> DomainKeys(gr.edges)

\* The representations that are an OutGraph, and those that are an InGraph.
HasOut(repr) == repr \in {"DenseOut", "DenseBi", "SparseOut", "SparseBi", "ImmutableOut"}

HasIn(repr) == repr \in {"DenseIn", "DenseBi", "SparseIn", "SparseBi", "ImmutableIn"}

\* out_edges / in_edges: the adjacency Vec or HashSet stored with the
\* vertex, the first or second component when both are stored.
OutEdges(gr, v) ==
  CASE gr.repr = "ImmutableOut" -> ImmAdjEdges(gr, v)
    [] gr.repr = "DenseBi" -> VertValue(gr, v)[1]
    [] gr.repr = "SparseOut" -> Ascending(VertValue(gr, v))
    [] gr.repr = "SparseBi" -> Ascending(VertValue(gr, v)[1])
    [] OTHER -> gr.verts[v + 1]

InEdges(gr, v) ==
  CASE gr.repr = "ImmutableIn" -> ImmAdjEdges(gr, v)
    [] gr.repr = "DenseBi" -> VertValue(gr, v)[2]
    [] gr.repr = "SparseIn" -> Ascending(VertValue(gr, v))
    [] gr.repr = "SparseBi" -> Ascending(VertValue(gr, v)[2])
    [] OTHER -> gr.verts[v + 1]

\* Whether self.verts[v] finds a value (indexing a dead key panics).
HasVert(gr, v) ==
  IF VertsSparse(gr.repr) THEN v \in DOMAIN gr.verts.values ELSE v < Len(gr.verts)

\* SparseEdgeList::remove_edge; ok is FALSE when the call panics.
SparseEdgeRemoveEdge(gr, e) ==
  LET rem == SparseDomainRemove(gr.edges, e)
  IN  [ok |-> rem.ok, g |-> [gr EXCEPT !.edges = rem.d]]

\* A remove_edge that leaves the edge in the set of its tail.
SparseOutRemoveEdge_KeepsAdjacency(gr, e) ==
  LET rem == SparseDomainRemove(gr.edges, e)
  IN  [ok |-> rem.ok, g |-> [gr EXCEPT !.edges = rem.d]]

\* SparseOutAdjacencyList::remove_edge: removed from the set of its tail.
SparseOutRemoveEdge(gr, e) ==
  LET rem == SparseDomainRemove(gr.edges, e)
      g1 == [gr EXCEPT !.edges = rem.d]
  IN  IF ~rem.ok THEN [ok |-> FALSE, g |-> g1]
      ELSE LET tail == Unwrap(rem.value)[1]
           IN  [ok |-> e \in VertValue(g1, tail),
                g |-> WithVertValue(g1, tail, VertValue(g1, tail) \ {e})]

\* A remove_edge that empties the set of the head: parallel edges and the
\* other edges into the head are dropped from the adjacency.
SparseInRemoveEdge_ClearsHead(gr, e) ==
  LET rem == SparseDomainRemove(gr.edges, e)
      g1 == [gr EXCEPT !.edges = rem.d]
  IN  IF ~rem.ok THEN [ok |-> FALSE, g |-> g1]
      ELSE LET head == Unwrap(rem.value)[2]
           IN  [ok |-> e \in VertValue(g1, head),
                g |-> WithVertValue(g1, head, {})]

\* SparseInAdjacencyList::remove_edge: removed from the set of its head.
SparseInRemoveEdge(gr, e) ==
  LET rem == SparseDomainRemove(gr.edges, e)
      g1 == [gr EXCEPT !.edges = rem.d]
  IN  IF ~rem.ok THEN [ok |-> FALSE, g |-> g1]
      ELSE LET head == Unwrap(rem.value)[2]
           IN  [ok |-> e \in VertValue(g1, head),
                g |-> WithVertValue(g1, head, VertValue(g1, head) \ {e})]

\* SparseBiAdjacencyList::remove_edge: removed from verts[tail].0 and from
\* verts[head].1.
SparseBiRemoveEdge(gr, e) ==
  LET rem == SparseDomainRemove(gr.edges, e)
      g0 == [gr EXCEPT !.edges = rem.d]
  IN  IF ~rem.ok THEN [ok |-> FALSE, g |-> g0]
      ELSE LET tail == Unwrap(rem.value)[1]
               head == Unwrap(rem.value)[2]
           IN  IF ~HasVert(g0, tail) \/ ~HasVert(g0, head) THEN [ok |-> FALSE, g |-> g0]
               ELSE LET g1 == WithVertValue(g0, tail,
                              <<VertValue(g0, tail)[1] \ {e}, VertValue(g0, tail)[2]>>)
                        g2 == WithVertValue(g1, head,
                              <<VertValue(g1, head)[1], VertValue(g1, head)[2] \ {e}>>)
                    IN  [ok |-> e \in VertValue(g0, tail)[1] /\ e \in VertValue(g1, head)[2],
                         g |-> g2]

\* remove_edge of the representations that have it.
RemoveEdgeResult(gr, e) ==
  CASE gr.repr = "SparseEdge" -> SparseEdgeRemoveEdge(gr, e)
    [] gr.repr = "SparseOut" -> SparseOutRemoveEdge(gr, e)
    [] gr.repr = "SparseIn" -> SparseInRemoveEdge(gr, e)
    [] gr.repr = "SparseBi" -> SparseBiRemoveEdge(gr, e)

\* The orders in which a HashSet can be iterated.
Orders(S) == {s \in [1..Cardinality(S) -> S] : {s[i] : i \in DOMAIN s} = S}

\* A first loop that removes the edges from the domain and leaves them in
\* the in-set of their head.
RECURSIVE RemoveOutLoop_NoScrub(_, _, _)
RemoveOutLoop_NoScrub(st, v, es) ==
  IF es = <<>> \/ ~st.ok THEN st
  ELSE LET e == Head(es)
       IN  IF e \notin DOMAIN st.g.edges.values THEN [ok |-> FALSE, g |-> st.g]
           ELSE LET head == HeadOf(st.g, e)
                    g1 == [st.g EXCEPT !.edges = SparseDomainRemove(@, e).d]
                IN  IF head = v THEN RemoveOutLoop_NoScrub(st, v, Tail(es))
                    ELSE RemoveOutLoop_NoScrub([ok |-> TRUE, g |-> g1], v, Tail(es))

\* remove_vert, first loop: for e in out_edges, in the order es.  The edges
\* to another vertex are removed from the domain and from the in-set of
\* their head; self-loops are left to the second loop.
RECURSIVE RemoveOutLoop(_, _, _)
RemoveOutLoop(st, v, es) ==
  IF es = <<>> \/ ~st.ok THEN st
  ELSE LET e == Head(es)
       IN  IF e \notin DOMAIN st.g.edges.values THEN [ok |-> FALSE, g |-> st.g]
           ELSE LET head == HeadOf(st.g, e)
                    g1 == [st.g EXCEPT !.edges = SparseDomainRemove(@, e).d]
                IN  IF head = v THEN RemoveOutLoop(st, v, Tail(es))
                    ELSE IF ~HasVert(g1, head) THEN [ok |-> FALSE, g |-> g1]
                    ELSE RemoveOutLoop(
                           [ok |-> TRUE,
                            g |-> WithVertValue(g1, head,
                                    <<VertValue(g1, head)[1], VertValue(g1, head)[2] \ {e}>>)],
                           v, Tail(es))

\* A second loop that scrubs the out-set of the tail and leaves the edge in
\* the domain.
RECURSIVE RemoveInLoop_KeepsEdges(_, _, _)
RemoveInLoop_KeepsEdges(st, v, es) ==
  IF es = <<>> \/ ~st.ok THEN st
  ELSE LET e == Head(es)
       IN  IF e \notin DOMAIN st.g.edges.values THEN [ok |-> FALSE, g |-> st.g]
           ELSE LET tail == TailOf(st.g, e)
                IN  IF tail = v \/ ~HasVert(st.g, tail)
                    THEN RemoveInLoop_KeepsEdges(st, v, Tail(es))
                    ELSE RemoveInLoop_KeepsEdges(
                           [ok |-> TRUE,
                            g |-> WithVertValue(st.g, tail,
                                    <<VertValue(st.g, tail)[1] \ {e},
                                      VertValue(st.g, tail)[2]>>)],
                           v, Tail(es))

\* remove_vert, second loop: for e in in_edges, in the order es.  Every edge
\* is removed from the domain, and from the out-set of its tail unless it is
\* a self-loop.
RECURSIVE RemoveInLoop(_, _, _)
RemoveInLoop(st, v, es) ==
  IF es = <<>> \/ ~st.ok THEN st
  ELSE LET e == Head(es)
       IN  IF e \notin DOMAIN st.g.edges.values THEN [ok |-> FALSE, g |-> st.g]
           ELSE LET tail == TailOf(st.g, e)
                    g1 == [st.g EXCEPT !.edges = SparseDomainRemove(@, e).d]
                IN  IF tail = v THEN RemoveInLoop([ok |-> TRUE, g |-> g1], v, Tail(es))
                    ELSE IF ~HasVert(g1, tail) THEN [ok |-> FALSE, g |-> g1]
                    ELSE RemoveInLoop(
                           [ok |-> TRUE,
                            g |-> WithVertValue(g1, tail,
                                    <<VertValue(g1, tail)[1] \ {e}, VertValue(g1, tail)[2]>>)],
                           v, Tail(es))

\* SparseBiAdjacencyList::remove_vert, the two sets being iterated in the
\* orders outs and ins.
SparseBiRemoveVert(gr, v, outs, ins) ==
  LET rem == SparseDomainRemove(gr.verts, v)
      g0 == [gr EXCEPT !.verts = rem.d]
  IN  IF ~rem.ok THEN [ok |-> FALSE, g |-> g0]
      ELSE RemoveInLoop(RemoveOutLoop([ok |-> TRUE, g |-> g0], v, outs), v, ins)

\* The graph built by n insert_vert calls followed by one insert_edge call per
\* element of el, in order.
RECURSIVE InsertVerts(_, _)
InsertVerts(gr, n) == IF n = 0 THEN gr ELSE InsertVerts(InsertVert(gr), n - 1)

RECURSIVE InsertEdges(_, _)
InsertEdges(gr, el) ==
  IF el = <<>> THEN gr
  ELSE InsertEdges(InsertEdge(gr, Head(el)[1], Head(el)[2]), Tail(el))

BuildGraph(repr, n, el) == InsertEdges(InsertVerts(NewGraph(repr), n), el)

\* The inputs: every list of at most max edges over n vertices (self-loops
\* and parallel edges included), in every insertion order.
EdgeLists(n, max) ==
  UNION {[1..m -> (0..(n - 1)) \X (0..(n - 1))] : m \in 0..max}

ReprOf(a) == IF a = "Out" THEN "DenseOut" ELSE "DenseIn"

(***************************************************************************)
(* Adjacencies: OutAdjacencies and InAdjacencies                           *)
(***************************************************************************)
\* An adjacency iterator that loses the first edge of every vertex.
AdjOf_SkipFirst(gr, a, v) ==
  LET es == IF a = "Out" THEN OutEdges(gr, v) ELSE InEdges(gr, v)
  IN  IF es = <<>> THEN es ELSE Tail(es)

AdjOf(gr, a, v) == IF a = "Out" THEN OutEdges(gr, v) ELSE InEdges(gr, v)

\* The vertex whose adjacency holds e: e \in of(from(e)).
AdjFrom(gr, a, e) == IF a = "Out" THEN TailOf(gr, e) ELSE HeadOf(gr, e)

\* The other endpoint of e.
AdjTo(gr, a, e) == IF a = "Out" THEN HeadOf(gr, e) ELSE TailOf(gr, e)

(***************************************************************************)
(* DepthFirst                                                              *)
(***************************************************************************)
StartTree(v) == [kind |-> "StartTree", v |-> v]

EndTree == [kind |-> "EndTree"]

OpenEdge(e) == [kind |-> "OpenEdge", e |-> e]

CrossEdge(e) == [kind |-> "CrossEdge", e |-> e]

BackEdge(e) == [kind |-> "BackEdge", e |-> e]

CloseEdge(e) == [kind |-> "CloseEdge", e |-> e]

\* DepthFirst::new: default visited map (No everywhere), empty stack, the
\* vertex iterator at the start of the range.
DepthFirstNew(gr) ==
  [visited |-> MapWithCapacity("No"),
   stack |-> <<>>,
   vert_iter |-> [start |-> 0, end |-> Len(gr.verts)]]

\* A find that starts one position too late.
RECURSIVE VertsFind_OffByOne(_, _)
VertsFind_OffByOne(it, visited) ==
  IF it.start + 1 >= it.end THEN [iter |-> [it EXCEPT !.start = it.end], found |-> None]
  ELSE IF MapGet(visited, it.start + 1) = "No"
       THEN [iter |-> [it EXCEPT !.start = @ + 2], found |-> Some(it.start + 1)]
       ELSE VertsFind_OffByOne([it EXCEPT !.start = @ + 1], visited)

\* vert_iter.find(|v| visited.get(v) == No): consumes the range up to and
\* including the first unvisited vertex.
RECURSIVE VertsFind(_, _)
VertsFind(it, visited) ==
  IF it.start >= it.end THEN [iter |-> it, found |-> None]
  ELSE IF MapGet(visited, it.start) = "No"
       THEN [iter |-> [it EXCEPT !.start = @ + 1], found |-> Some(it.start)]
       ELSE VertsFind([it EXCEPT !.start = @ + 1], visited)

\* The top frame yielded edge e (the frame's iterator has already advanced).
DFEdgeStep(gr, a, d, e) ==
  LET v == AdjFrom(gr, a, e)
      v_visited == MapGet(d.visited, v)
  IN  CASE v_visited = "No" ->
             [df |-> [d EXCEPT !.visited = MapSet(@, v, "Open"),
                               !.stack = Append(@, [edge |-> Some(e),
                                                    iter |-> AdjOf(gr, a, v)])],
              item |-> Some(OpenEdge(e))]
        [] v_visited = "Open" -> [df |-> d, item |-> Some(BackEdge(e))]
        [] v_visited = "Closed" -> [df |-> d, item |-> Some(CrossEdge(e))]

\* A pop that ends the iteration at the end of a tree.
DFPopStep_NoEndTree(gr, a, d) ==
  LET frame == d.stack[Len(d.stack)]
      rest == [d EXCEPT !.stack = SubSeq(@, 1, Len(@) - 1)]
  IN  IF IsSome(frame.edge)
      THEN LET e == Unwrap(frame.edge)
               v == AdjFrom(gr, a, e)
           IN  [df |-> [rest EXCEPT !.visited = MapSet(@, v, "Closed")],
                item |-> Some(CloseEdge(e))]
      ELSE [df |-> rest, item |-> None]

\* A pop that reports the end of the frame but leaves the frame on the stack.
DFPopStep_NoPop(gr, a, d) ==
  LET frame == d.stack[Len(d.stack)]
  IN  IF IsSome(frame.edge)
      THEN [df |-> d, item |-> Some(CloseEdge(Unwrap(frame.edge)))]
      ELSE [df |-> d, item |-> Some(EndTree)]

\* The top frame is exhausted: pop it.
DFPopStep(gr, a, d) ==
  LET frame == d.stack[Len(d.stack)]
      rest == [d EXCEPT !.stack = SubSeq(@, 1, Len(@) - 1)]
  IN  IF IsSome(frame.edge)
      THEN LET e == Unwrap(frame.edge)
               v == AdjFrom(gr, a, e)
           IN  [df |-> [rest EXCEPT !.visited = MapSet(@, v, "Closed")],
                item |-> Some(CloseEdge(e))]
      ELSE [df |-> rest, item |-> Some(EndTree)]

\* The stack is empty: start a tree at the next unvisited vertex, if any.
DFStartStep(gr, a, d) ==
  LET f == VertsFind(d.vert_iter, d.visited)
  IN  IF ~IsSome(f.found)
      THEN [df |-> [d EXCEPT !.vert_iter = f.iter], item |-> None]
      ELSE LET v == Unwrap(f.found)
           IN  [df |-> [d EXCEPT !.vert_iter = f.iter,
                                 !.visited = MapSet(@, v, "Open"),
                                 !.stack = Append(@, [edge |-> None,
                                                      iter |-> AdjOf(gr, a, v)])],
                item |-> Some(StartTree(v))]

\* <DepthFirst as Iterator>::next
DepthFirstNext(gr, a, d) ==
  IF d.stack # <<>>
  THEN LET top == Len(d.stack)
           frame == d.stack[top]
       IN  IF frame.iter # <<>>
           THEN DFEdgeStep(gr, a, [d EXCEPT !.stack[top].iter = Tail(@)],
                           Head(frame.iter))
           ELSE DFPopStep(gr, a, d)
  ELSE DFStartStep(gr, a, d)

(***************************************************************************)
(* BinaryHeap<K, T, M>: heap is a Vec<Option<(K, T)>>, map sends a key to   *)
(* the index of its slot.  An item is <<key, value>>; values are distances *)
(* ordered by their cost alone.                                            *)
(***************************************************************************)
\* Ord for the heap's values: a distance compares by its cost.
Leq(a, b) == a.cost <= b.cost

Less(a, b) == a.cost < b.cost

\* BinaryHeap::new
HeapNew(map) == [heap |-> <<>>, map |-> map]

\* A set_item that stores the item without recording its slot in the map.
SetItem_NoMap(h, index, it) ==
  [heap |-> [h.heap EXCEPT ![index + 1] = Some(it)], map |-> h.map]

\* set_item: record the slot in the map and store the item in the slot.
SetItem(h, index, it) ==
  [heap |-> [h.heap EXCEPT ![index + 1] = Some(it)],
   map |-> MapSet(h.map, it[1], Some(index))]

\* A bubble_up that stores the item where it is without comparing it with its
\* parents.
BubbleUp_NoBubble(h, index, it) == SetItem(h, index, it)

\* A bubble_up that moves the item up past one parent at most.
BubbleUp_OneLevel(h, index, it) ==
  IF index > 0
  THEN LET parent_index == (index - 1) \div 2
           parent == h.heap[parent_index + 1]
       IN  IF Leq(Unwrap(parent)[2], it[2])
           THEN SetItem(h, index, it)
           ELSE SetItem(SetItem([h EXCEPT !.heap[parent_index + 1] = None],
                                index, Unwrap(parent)),
                        parent_index, it)
  ELSE SetItem(h, index, it)

\* bubble_up: move parents greater than the item down, then store the item.
RECURSIVE BubbleUp(_, _, _)
BubbleUp(h, index, it) ==
  IF index > 0
  THEN LET parent_index == (index - 1) \div 2
           parent == h.heap[parent_index + 1]
       IN  IF Leq(Unwrap(parent)[2], it[2])
           THEN SetItem(h, index, it)
           ELSE BubbleUp(SetItem([h EXCEPT !.heap[parent_index + 1] = None],
                                 index, Unwrap(parent)),
                         parent_index, it)
  ELSE SetItem(h, index, it)

\* A sink_down that looks at the left child alone when there are two.
RECURSIVE SinkDown_LeftOnly(_, _, _)
SinkDown_LeftOnly(h, index, it) ==
  LET left_index == 2 * index + 1
  IN  IF left_index < Len(h.heap) /\ Less(Unwrap(h.heap[left_index + 1])[2], it[2])
      THEN SinkDown_LeftOnly(SetItem([h EXCEPT !.heap[left_index + 1] = None],
                                     index, Unwrap(h.heap[left_index + 1])),
                             left_index, it)
      ELSE SetItem(h, index, it)

\* sink_down: move smaller children up, then store the item.
RECURSIVE SinkDown(_, _, _)
SinkDown(h, index, it) ==
  LET left_index == 2 * index + 1
      right_index == left_index + 1
  IN  IF right_index >= Len(h.heap)
      THEN IF left_index < Len(h.heap)
                /\ Less(Unwrap(h.heap[left_index + 1])[2], it[2])
           THEN SetItem(SetItem([h EXCEPT !.heap[left_index + 1] = None],
                                index, Unwrap(h.heap[left_index + 1])),
                        left_index, it)
           ELSE SetItem(h, index, it)
      ELSE LET child_index ==
                 IF Less(Unwrap(h.heap[left_index + 1])[2],
                         Unwrap(h.heap[right_index + 1])[2])
                 THEN left_index ELSE right_index
               child == h.heap[child_index + 1]
           IN  IF Leq(it[2], Unwrap(child)[2])
               THEN SetItem(h, index, it)
               ELSE SinkDown(SetItem([h EXCEPT !.heap[child_index + 1] = None],
                                     index, Unwrap(child)),
                             child_index, it)

\* A try_decrease that never lowers the value of a key already queued.
TryDecrease_NoDecrease(h, key, value) ==
  LET slot == MapGet(h.map, key)
  IN  IF IsSome(slot)
      THEN [h |-> h, result |-> FALSE]
      ELSE [h |-> BubbleUp([h EXCEPT !.heap = Append(@, None)],
                           Len(h.heap), <<key, value>>),
            result |-> TRUE]

\* A try_decrease that leaves a queued key alone only for a value strictly
\* less than the new one.
TryDecrease_StrictCompare(h, key, value) ==
  LET slot == MapGet(h.map, key)
  IN  IF IsSome(slot)
      THEN IF Less(Unwrap(h.heap[Unwrap(slot) + 1])[2], value)
           THEN [h |-> h, result |-> FALSE]
           ELSE [h |-> BubbleUp(h, Unwrap(slot), <<key, value>>), result |-> TRUE]
      ELSE [h |-> BubbleUp([h EXCEPT !.heap = Append(@, None)],
                           Len(h.heap), <<key, value>>),
            result |-> TRUE]

\* A try_decrease that pushes a new slot for a key that is already queued.
TryDecrease_AlwaysPushes(h, key, value) ==
  [h |-> BubbleUp([h EXCEPT !.heap = Append(@, None)], Len(h.heap), <<key, value>>),
   result |-> TRUE]

\* try_decrease: a key already queued with a value <= the new one is left
\* alone; otherwise the value is lowered or a new item is added.
TryDecrease(h, key, value) ==
  LET slot == MapGet(h.map, key)
  IN  IF IsSome(slot)
      THEN IF Leq(Unwrap(h.heap[Unwrap(slot) + 1])[2], value)
           THEN [h |-> h, result |-> FALSE]
           ELSE [h |-> BubbleUp(h, Unwrap(slot), <<key, value>>), result |-> TRUE]
      ELSE [h |-> BubbleUp([h EXCEPT !.heap = Append(@, None)],
                           Len(h.heap), <<key, value>>),
            result |-> TRUE]

\* A pop that returns the last item of the array, not the root.
Pop_ReturnsLast(h) ==
  IF h.heap = <<>> THEN [h |-> h, result |-> None]
  ELSE LET last == h.heap[Len(h.heap)]
           rest == [h EXCEPT !.heap = SubSeq(@, 1, Len(@) - 1)]
       IN  [h |-> [rest EXCEPT !.map = MapSet(@, Unwrap(last)[1], None)],
            result |-> last]

\* A pop that writes None for key 0 in the map before it looks at the array.
Pop_EmptyTouchesMap(h) ==
  IF h.heap = <<>> THEN [h |-> [h EXCEPT !.map = MapSet(@, 0, None)], result |-> None]
  ELSE LET last == h.heap[Len(h.heap)]
           rest == [h EXCEPT !.heap = SubSeq(@, 1, Len(@) - 1)]
           result == IF rest.heap # <<>> THEN Unwrap(rest.heap[1]) ELSE Unwrap(last)
           sunk == IF rest.heap # <<>>
                   THEN SinkDown([rest EXCEPT !.heap[1] = None], 0, Unwrap(last))
                   ELSE rest
       IN  [h |-> [sunk EXCEPT !.map = MapSet(@, result[1], None)],
            result |-> Some(result)]

\* A pop that leaves the popped key's map entry as it was.
Pop_KeepsMapEntry(h) ==
  IF h.heap = <<>> THEN [h |-> h, result |-> None]
  ELSE LET last == h.heap[Len(h.heap)]
           rest == [h EXCEPT !.heap = SubSeq(@, 1, Len(@) - 1)]
           result == IF rest.heap # <<>> THEN Unwrap(rest.heap[1]) ELSE Unwrap(last)
           sunk == IF rest.heap # <<>>
                   THEN SinkDown([rest EXCEPT !.heap[1] = None], 0, Unwrap(last))
                   ELSE rest
       IN  [h |-> sunk, result |-> Some(result)]

\* pop: remove the root, sink the last item down from the root and clear the
\* popped key's map entry.
Pop(h) ==
  IF h.heap = <<>> THEN [h |-> h, result |-> None]
  ELSE LET last == h.heap[Len(h.heap)]
           rest == [h EXCEPT !.heap = SubSeq(@, 1, Len(@) - 1)]
           result == IF rest.heap # <<>> THEN Unwrap(rest.heap[1]) ELSE Unwrap(last)
           sunk == IF rest.heap # <<>>
                   THEN SinkDown([rest EXCEPT !.heap[1] = None], 0, Unwrap(last))
                   ELSE rest
       IN  [h |-> [sunk EXCEPT !.map = MapSet(@, result[1], None)],
            result |-> Some(result)]

(***************************************************************************)
(* Dijkstra: OutGraph::dijkstra along out-edges, Adjacencies::dijkstra     *)
(* (through InGraph::dijkstra_to) along in-edges.  Distances carry the     *)
(* edge last added to them, as TestDistance does.                          *)
(***************************************************************************)
\* TestDistance::new
NewDistance(cost) == [cost |-> cost, pred |-> None]

\* TestDistance + TestCost(c, e)
AddCost(d, c, e) == [cost |-> d.cost + c, pred |-> Some(e)]

\* costs.get(e)
CostOf(cs, e) == cs[e + 1]

\* The first statements of dijkstra: both maps empty with default None and
\* the source queued at distance zero.
DijkstraSeed(source, zero) ==
  TryDecrease(HeapNew(MapWithCapacity(None)), source, zero).h

\* OutRelax queueing the cost of the edge alone, not added to the distance.
OutRelax_DropsDistance(gr, cs, q, dist, d, e) ==
  LET u == HeadOf(gr, e)
  IN  IF MapGet(dist, u) = None
      THEN [queue |-> TryDecrease(q, u, AddCost(NewDistance(0), CostOf(cs, e), e)).h,
            ok |-> TRUE]
      ELSE [queue |-> q, ok |-> TRUE]

\* OutRelax queueing the neighbour whether or not its distance is final.
OutRelax_NoFinalCheck(gr, cs, q, dist, d, e) ==
  [queue |-> TryDecrease(q, HeadOf(gr, e), AddCost(d, CostOf(cs, e), e)).h, ok |-> TRUE]

\* One edge e of the popped vertex, at distance d, in OutGraph::dijkstra.
OutRelax(gr, cs, q, dist, d, e) ==
  LET u == HeadOf(gr, e)
  IN  IF MapGet(dist, u) = None
      THEN [queue |-> TryDecrease(q, u, AddCost(d, CostOf(cs, e), e)).h, ok |-> TRUE]
      ELSE [queue |-> q, ok |-> TRUE]

\* AdjRelax queueing the neighbour whether or not its distance is final.
AdjRelax_NoFinalCheck(gr, a, cs, q, dist, d, e) ==
  [queue |-> TryDecrease(q, AdjTo(gr, a, e), AddCost(d, CostOf(cs, e), e)).h, ok |-> TRUE]

\* AdjRelax asserting that the recorded distance is strictly less than the
\* distance along the examined edge.
AdjRelax_StrictAssert(gr, a, cs, q, dist, d, e) ==
  LET u == AdjTo(gr, a, e)
      u_distance == MapGet(dist, u)
  IN  IF IsSome(u_distance)
      THEN [queue |-> q, ok |-> Less(Unwrap(u_distance), AddCost(d, CostOf(cs, e), e))]
      ELSE [queue |-> TryDecrease(q, u, AddCost(d, CostOf(cs, e), e)).h, ok |-> TRUE]

\* One edge e of the popped vertex, at distance d, in Adjacencies::dijkstra;
\* ok is FALSE when the debug assertion "negative cost edge" fails.
AdjRelax(gr, a, cs, q, dist, d, e) ==
  LET u == AdjTo(gr, a, e)
      u_distance == MapGet(dist, u)
  IN  IF IsSome(u_distance)
      THEN [queue |-> q, ok |-> Leq(Unwrap(u_distance), AddCost(d, CostOf(cs, e), e))]
      ELSE [queue |-> TryDecrease(q, u, AddCost(d, CostOf(cs, e), e)).h, ok |-> TRUE]

Relax(gr, a, cs, q, dist, d, e) ==
  IF a = "Out" THEN OutRelax(gr, cs, q, dist, d, e)
  ELSE AdjRelax(gr, a, cs, q, dist, d, e)

(***************************************************************************)
(* Specification of a traversal: a graph is built, depth_first_out or      *)
(* depth_first_in creates the iterator, and the caller pulls events until  *)
(* next returns None.                                                      *)
(***************************************************************************)
\* The value of item before the first call of next.
NotCalled == Some([kind |-> "NotCalled"])

\* No Dijkstra run is in progress.
DjIdle ==
  /\ costs = <<>>
  /\ v0 = 0
  /\ queue = <<>>
  /\ distances = <<>>
  /\ cur = None
  /\ popped = <<>>
  /\ pc = "idle"

\* No heap is exercised on its own.
HpIdle ==
  /\ ret = None
  /\ passed = <<>>

\* No graph is being mutated.
MutIdle == live = <<>> /\ maps = <<>>

InitDF ==
  /\ adj \in {"Out", "In"}
  /\ \E n \in 0..MaxVerts : \E el \in EdgeLists(n, MaxEdges) :
       g = BuildGraph(ReprOf(adj), n, el)
  /\ df = DepthFirstNew(g)
  /\ item = NotCalled
  /\ events = <<>>
  /\ DjIdle
  /\ HpIdle
  /\ MutIdle

\* One call of next by the consumer of the iterator, which stops pulling once
\* next has returned None.  The cap on the history is never reached by a
\* traversal (two events a vertex, one or two an edge).
DFNext ==
  /\ item # None
  /\ Len(events) < MaxEvents
  /\ LET r == DepthFirstNext(g, adj, df)
     IN  /\ df' = r.df
         /\ item' = r.item
         /\ events' = IF IsSome(r.item) THEN Append(events, Unwrap(r.item)) ELSE events
  /\ UNCHANGED <<graphVars, djVars, hpVars, mutVars>>

NextDF == DFNext

SpecDF == InitDF /\ [][NextDF]_vars

\* The consumer keeps pulling until the iterator is exhausted.
FairSpecDF == SpecDF /\ WF_vars(NextDF)

(***************************************************************************)
(* What a consumer can reconstruct from the events pulled so far.          *)
(***************************************************************************)
Range(s) == {s[i] : i \in 1..Len(s)}

NoDuplicates(s) == \A i, j \in 1..Len(s) : i # j => s[i] # s[j]

EdgeKinds == {"OpenEdge", "CrossEdge", "BackEdge"}

CountKind(evs, kind) == Cardinality({i \in 1..Len(evs) : evs[i].kind = kind})

\* The vertices announced so far, in order: v for StartTree(v), the target of
\* e for OpenEdge(e).
RECURSIVE VisitOrder(_, _, _)
VisitOrder(gr, a, evs) ==
  IF evs = <<>> THEN <<>>
  ELSE LET ev == evs[Len(evs)]
           before == VisitOrder(gr, a, SubSeq(evs, 1, Len(evs) - 1))
       IN  CASE ev.kind = "StartTree" -> Append(before, ev.v)
             [] ev.kind = "OpenEdge" -> Append(before, AdjTo(gr, a, ev.e))
             [] OTHER -> before

\* The active (ancestor) stack: push on StartTree and OpenEdge, pop on
\* CloseEdge and EndTree.
RECURSIVE AncestorStack(_, _, _)
AncestorStack(gr, a, evs) ==
  IF evs = <<>> THEN <<>>
  ELSE LET ev == evs[Len(evs)]
           before == AncestorStack(gr, a, SubSeq(evs, 1, Len(evs) - 1))
       IN  CASE ev.kind = "StartTree" -> Append(before, ev.v)
             [] ev.kind = "OpenEdge" -> Append(before, AdjTo(gr, a, ev.e))
             [] ev.kind \in {"CloseEdge", "EndTree"} ->
                  SubSeq(before, 1, Len(before) - 1)
             [] OTHER -> before

\* The checks a consumer makes while replaying the events on its own stack:
\* TRUE iff every check up to the last event passes.
RECURSIVE ReplayOK(_, _, _)
ReplayOK(gr, a, evs) ==
  IF evs = <<>> THEN TRUE
  ELSE LET ev == evs[Len(evs)]
           prefix == SubSeq(evs, 1, Len(evs) - 1)
           stk == AncestorStack(gr, a, prefix)
       IN  /\ ReplayOK(gr, a, prefix)
           /\ CASE ev.kind \in {"CrossEdge", "BackEdge"} ->
                     /\ stk # <<>>
                     /\ stk[Len(stk)] = AdjFrom(gr, a, ev.e)
                [] ev.kind = "CloseEdge" ->
                     /\ Len(stk) >= 2
                     /\ stk[Len(stk)] = AdjTo(gr, a, ev.e)
                     /\ stk[Len(stk) - 1] = AdjFrom(gr, a, ev.e)
                [] ev.kind = "EndTree" -> stk # <<>>
                [] OTHER -> TRUE

\* The traversal is complete: next has returned None.
Complete == item = None

\* The top frame's adjacency iterator is about to yield an edge.
Yields == df.stack # <<>> /\ df.stack[Len(df.stack)].iter # <<>>

YieldedEdge == Head(df.stack[Len(df.stack)].iter)

\* The target of the yielded edge: head for out, tail for in.
YieldedTarget == AdjTo(g, adj, YieldedEdge)

ItemKind(i) == IF IsSome(i) THEN Unwrap(i).kind ELSE "None"

(***************************************************************************)
(* Claims about the depth-first traversal.                                 *)
(***************************************************************************)
\* C1: whenever the top frame yields an edge e whose target (head for out,
\* tail for in) is marked No, next emits OpenEdge(e), marks the target Open
\* and pushes a frame for the target; OpenEdge is emitted in no other case.
C1_OpenEdgeIffTargetUnvisited ==
  [][DFNext =>
       /\ (Yields /\ MapGet(df.visited, YieldedTarget) = "No") =>
             /\ item' = Some(OpenEdge(YieldedEdge))
             /\ MapGet(df'.visited, YieldedTarget) = "Open"
             /\ Len(df'.stack) = Len(df.stack) + 1
             /\ df'.stack[Len(df'.stack)] =
                  [edge |-> Some(YieldedEdge), iter |-> AdjOf(g, adj, YieldedTarget)]
       /\ ItemKind(item') = "OpenEdge" =>
             Yields /\ MapGet(df.visited, YieldedTarget) = "No"]_vars

\* C2: BackEdge(e) is emitted exactly when the target of e is on the active
\* stack at that moment (the root of the current tree or the target of an
\* OpenEdge not yet closed).
C2_BackEdgeIffTargetOnStack ==
  [][DFNext =>
       /\ Yields =>
            (item' = Some(BackEdge(YieldedEdge))
               <=> YieldedTarget \in Range(AncestorStack(g, adj, events)))
       /\ ItemKind(item') = "BackEdge" => Yields]_vars

\* C3: CrossEdge(e) is emitted exactly when the target of e was visited
\* earlier and is no longer on the active stack, roots of earlier trees
\* included.
C3_CrossEdgeIffTargetFinished ==
  [][DFNext =>
       /\ Yields =>
            (item' = Some(CrossEdge(YieldedEdge))
               <=> YieldedTarget \in Range(VisitOrder(g, adj, events))
                                       \ Range(AncestorStack(g, adj, events)))
       /\ ItemKind(item') = "CrossEdge" => Yields]_vars

\* C4: in a complete traversal the vertices announced by StartTree together
\* with the targets of OpenEdge are pairwise distinct and are exactly verts().
C4_EveryVertexOnce ==
  Complete =>
    /\ NoDuplicates(VisitOrder(g, adj, events))
    /\ Range(VisitOrder(g, adj, events)) = Range(Verts(g))

C4_Witness ==
  /\ Complete
  /\ adj = "Out"
  /\ Len(g.verts) = 3
  /\ g.edges = <<<<0, 1>>, <<1, 2>>>>

\* C5: in a complete traversal every edge is in exactly one OpenEdge,
\* CrossEdge or BackEdge event, so their number is the number of edges.
C5_EveryEdgeOnce ==
  Complete =>
    /\ \A e \in Range(Edges(g)) :
         Cardinality({i \in 1..Len(events) :
                        events[i].kind \in EdgeKinds /\ events[i].e = e}) = 1
    /\ CountKind(events, "OpenEdge") + CountKind(events, "CrossEdge")
         + CountKind(events, "BackEdge") = Len(g.edges)

C5_Witness ==
  /\ Complete
  /\ Len(g.verts) = 2
  /\ g.edges = <<<<0, 1>>, <<0, 1>>>>

\* C6: in a complete traversal #StartTree = #EndTree, #OpenEdge = #CloseEdge
\* and every OpenEdge(e) is followed by a CloseEdge(e).
C6_Balanced ==
  Complete =>
    /\ CountKind(events, "StartTree") = CountKind(events, "EndTree")
    /\ CountKind(events, "OpenEdge") = CountKind(events, "CloseEdge")
    /\ \A i \in 1..Len(events) :
         events[i].kind = "OpenEdge" =>
           \E j \in (i + 1)..Len(events) : events[j] = CloseEdge(events[i].e)

C6_Witness ==
  /\ Complete
  /\ CountKind(events, "StartTree") = 3
  /\ CountKind(events, "EndTree") = 3
  /\ Len(g.edges) = 2

\* C7: replaying the events on an ancestor stack, the source-side endpoint of
\* every CrossEdge and BackEdge is the top of the stack, every CloseEdge pops
\* the target of its edge and uncovers its source-side endpoint, and the
\* stack is empty when the traversal ends.
C7_AncestorStackMatches ==
  /\ ReplayOK(g, adj, events)
  /\ Complete => AncestorStack(g, adj, events) = <<>>

C7_Witness ==
  /\ Complete
  /\ adj = "In"
  /\ Len(g.verts) = 3
  /\ g.edges = <<<<0, 1>>, <<2, 1>>>>
  /\ CountKind(events, "CrossEdge") + CountKind(events, "BackEdge") = 2

\* C8: for every finite graph, pulling events reaches the end of the
\* sequence after finitely many events, with the frame stack empty.
C8_Terminates == <>(Complete /\ df.stack = <<>>)

C8_Witness ==
  /\ Complete
  /\ df.stack = <<>>
  /\ Len(g.verts) = 2
  /\ g.edges = <<<<0, 1>>, <<1, 0>>>>

(***************************************************************************)
(* Specification of a Dijkstra run: a graph is built, costs and a source   *)
(* are chosen, and the run proceeds one pop or one examined edge at a      *)
(* time until the queue is empty.                                          *)
(***************************************************************************)
\* No traversal is in progress.
DfIdle ==
  /\ df = <<>>
  /\ item = NotCalled
  /\ events = <<>>

InitDJ ==
  /\ adj \in {"Out", "In"}
  /\ \E n \in 1..MaxVerts : \E el \in EdgeLists(n, DjMaxEdges) :
       /\ g = BuildGraph(ReprOf(adj), n, el)
       /\ costs \in [1..Len(el) -> CostValues]
       /\ v0 \in 0..(n - 1)
  /\ queue = DijkstraSeed(v0, NewDistance(0))
  /\ distances = MapWithCapacity(None)
  /\ cur = None
  /\ popped = <<>>
  /\ pc = "loop"
  /\ DfIdle
  /\ HpIdle
  /\ MutIdle

\* while let Some((v, d)) = queue.pop(): record the distance of v and start
\* on its adjacencies, or leave the loop when the queue is empty.
DijkstraPop ==
  /\ pc = "loop"
  /\ LET r == Pop(queue)
     IN  /\ queue' = r.h
         /\ IF r.result = None
            THEN /\ pc' = "done"
                 /\ UNCHANGED <<distances, cur, popped>>
            ELSE LET v == Unwrap(r.result)[1]
                     d == Unwrap(r.result)[2]
                     it == AdjOf(g, adj, v)
                 IN  /\ distances' = MapSet(distances, v, Some(d))
                     /\ popped' = Append(popped, <<v, d>>)
                     /\ cur' = IF it = <<>> THEN None
                               ELSE Some([v |-> v, d |-> d, iter |-> it])
                     /\ pc' = IF it = <<>> THEN "loop" ELSE "for"
  /\ UNCHANGED <<graphVars, dfVars, hpVars, mutVars, costs, v0>>

\* for e in of(v): one edge of the popped vertex.
DijkstraRelax ==
  /\ pc = "for"
  /\ LET c == Unwrap(cur)
         r == Relax(g, adj, costs, queue, distances, c.d, Head(c.iter))
         rest == Tail(c.iter)
     IN  IF r.ok
         THEN /\ queue' = r.queue
              /\ cur' = IF rest = <<>> THEN None ELSE Some([c EXCEPT !.iter = rest])
              /\ pc' = IF rest = <<>> THEN "loop" ELSE "for"
         ELSE /\ pc' = "panicked"
              /\ UNCHANGED <<queue, cur>>
  /\ UNCHANGED <<graphVars, dfVars, hpVars, mutVars, costs, v0, distances, popped>>

NextDJ == DijkstraPop \/ DijkstraRelax

SpecDJ == InitDJ /\ [][NextDJ]_vars

(***************************************************************************)
(* Shortest paths by definition: rounds of relaxation over all edges, in   *)
(* the traversal direction (from AdjFrom(e) to AdjTo(e)).                  *)
(***************************************************************************)
\* The cost of a vertex no path reaches.
Unreached == 0 - 1

MinReached(x, y) ==
  IF x = Unreached THEN y ELSE IF y = Unreached THEN x ELSE IF x <= y THEN x ELSE y

RECURSIVE MinOver(_)
MinOver(xs) == IF xs = <<>> THEN Unreached ELSE MinReached(Head(xs), MinOver(Tail(xs)))

\* The least cost of a path of at most k edges from the source to each vertex.
RECURSIVE PathCosts(_, _, _, _, _)
PathCosts(gr, a, cs, source, k) ==
  IF k = 0 THEN [v \in 0..(Len(gr.verts) - 1) |-> IF v = source THEN 0 ELSE Unreached]
  ELSE LET prev == PathCosts(gr, a, cs, source, k - 1)
       IN  [v \in 0..(Len(gr.verts) - 1) |->
              MinReached(prev[v],
                MinOver([i \in 1..Len(gr.edges) |->
                           IF AdjTo(gr, a, i - 1) = v /\ prev[AdjFrom(gr, a, i - 1)] # Unreached
                           THEN prev[AdjFrom(gr, a, i - 1)] + CostOf(cs, i - 1)
                           ELSE Unreached]))]

ShortestCosts == PathCosts(g, adj, costs, v0, Len(g.verts))

\* The cost returned for v, or Unreached for none.
ResultCost(v) ==
  IF IsSome(MapGet(distances, v)) THEN Unwrap(MapGet(distances, v)).cost ELSE Unreached

(***************************************************************************)
(* Claims about Dijkstra.                                                  *)
(***************************************************************************)
\* C9: with non-negative costs Dijkstra returns for every vertex the least
\* total cost over all paths between it and the source in the traversal
\* direction, and none exactly for the vertices without such a path.
C9_ShortestPaths ==
  pc = "done" =>
    \A v \in 0..(Len(g.verts) - 1) : ResultCost(v) = ShortestCosts[v]

\* The scenario of a direct edge dearer than the two-edge path: edges (0,1)
\* cost 1, (1,2) cost 1, (0,2) cost 3, source 0; the result is
\* {0:0, 1:1, 2:2} and vertex 2 is reached through edge (1,2).
C9_Witness ==
  /\ pc = "done"
  /\ adj = "Out"
  /\ Len(g.verts) = 3
  /\ g.edges = <<<<0, 1>>, <<1, 2>>, <<0, 2>>>>
  /\ costs = <<1, 1, 3>>
  /\ v0 = 0
  /\ <<ResultCost(0), ResultCost(1), ResultCost(2)>> = <<0, 1, 2>>
  /\ Unwrap(MapGet(distances, 2)).pred = Some(1)

\* C10: in the result no edge admits a relaxation: if the near-side endpoint
\* of an edge is reached, so is the other endpoint, at a distance <= the
\* near-side distance + the cost of the edge.
C10_NoRelaxation ==
  pc = "done" =>
    \A e \in Range(Edges(g)) :
      ResultCost(AdjFrom(g, adj, e)) # Unreached =>
        /\ ResultCost(AdjTo(g, adj, e)) # Unreached
        /\ ResultCost(AdjTo(g, adj, e))
             <= ResultCost(AdjFrom(g, adj, e)) + CostOf(costs, e)

C10_Witness ==
  /\ pc = "done"
  /\ adj = "In"
  /\ Len(g.verts) = 3
  /\ g.edges = <<<<0, 1>>, <<1, 2>>, <<0, 2>>>>
  /\ costs = <<1, 0, 3>>
  /\ v0 = 2
  /\ <<ResultCost(0), ResultCost(1), ResultCost(2)>> = <<1, 0, 0>>

\* C11: in the result every reached vertex other than the source carries a
\* predecessor edge that enters it in the traversal direction, whose other
\* endpoint is reached, and its distance is that endpoint's distance plus the
\* cost of the edge.
C11_PredecessorEdge ==
  pc = "done" =>
    \A v \in 0..(Len(g.verts) - 1) :
      (v # v0 /\ IsSome(MapGet(distances, v))) =>
        LET p == Unwrap(MapGet(distances, v)).pred
        IN  /\ IsSome(p)
            /\ Unwrap(p) \in Range(Edges(g))
            /\ AdjTo(g, adj, Unwrap(p)) = v
            /\ IsSome(MapGet(distances, AdjFrom(g, adj, Unwrap(p))))
            /\ ResultCost(v)
                 = ResultCost(AdjFrom(g, adj, Unwrap(p))) + CostOf(costs, Unwrap(p))

\* A chain 0 -> 1 -> 2 with a dearer direct edge: vertex 2 is reached
\* through edge 1 from vertex 1, vertex 1 through edge 0 from the source.
C11_Witness ==
  /\ pc = "done"
  /\ adj = "Out"
  /\ Len(g.verts) = 3
  /\ g.edges = <<<<0, 1>>, <<1, 2>>, <<0, 2>>>>
  /\ costs = <<1, 1, 3>>
  /\ v0 = 0
  /\ Unwrap(MapGet(distances, 1)) = [cost |-> 1, pred |-> Some(0)]
  /\ Unwrap(MapGet(distances, 2)) = [cost |-> 2, pred |-> Some(1)]

\* C12: the source is recorded at exactly the supplied zero with no
\* predecessor, from the moment it is recorded to the result, whatever
\* self-loops or cycles pass through it.
C12_SourceAtZero ==
  /\ pc = "done" => IsSome(MapGet(distances, v0))
  /\ IsSome(MapGet(distances, v0)) => Unwrap(MapGet(distances, v0)) = NewDistance(0)

\* A self-loop of cost 0 on the source and a cycle of cost 1 through it.
C12_Witness ==
  /\ pc = "done"
  /\ adj = "In"
  /\ Len(g.verts) = 2
  /\ g.edges = <<<<0, 0>>, <<0, 1>>, <<1, 0>>>>
  /\ costs = <<0, 1, 0>>
  /\ v0 = 0
  /\ Unwrap(MapGet(distances, 0)) = NewDistance(0)
  /\ ResultCost(1) = 0

(***************************************************************************)
(* A Dijkstra run, in a debug build, over costs that may be negative.       *)
(***************************************************************************)
\* Costs of an edge when the caller breaks the precondition.
SignedCostValues == {0 - 1, 0, 1}

InitDJSigned ==
  /\ adj \in {"Out", "In"}
  /\ \E n \in 1..MaxVerts : \E el \in EdgeLists(n, MaxEdges) :
       /\ g = BuildGraph(ReprOf(adj), n, el)
       /\ costs \in [1..Len(el) -> SignedCostValues]
       /\ v0 \in 0..(n - 1)
  /\ queue = DijkstraSeed(v0, NewDistance(0))
  /\ distances = MapWithCapacity(None)
  /\ cur = None
  /\ popped = <<>>
  /\ pc = "loop"
  /\ DfIdle
  /\ HpIdle
  /\ MutIdle

SpecDJSigned == InitDJSigned /\ [][NextDJ]_vars

\* The edges the run has examined: those of the vertices popped so far, less
\* the ones the current vertex still has to go through.
Examined ==
  {e \in Range(Edges(g)) :
     /\ IsSome(MapGet(distances, AdjFrom(g, adj, e)))
     /\ (IsSome(cur) => e \notin Range(Unwrap(cur).iter))}

\* C13: in a debug build a run that examines an edge of negative cost
\* (distance + cost < distance) fails on an assertion: it never returns a
\* distance map.
C13_NegativeCostFailsFast ==
  pc = "done" => \A e \in Examined : CostOf(costs, e) >= 0

(***************************************************************************)
(* Specification of a heap used on its own.  A client calls try_decrease   *)
(* and pop.  In a batch run all calls of try_decrease come first and pop   *)
(* is then called until it returns None, as the property test              *)
(* try_decrease_and_pop does; in a mixed run the two are called in any     *)
(* order.  Of a batch run the history is kept: the values passed for each  *)
(* key and the items popped; of a mixed run the last call and its result.  *)
(***************************************************************************)
HeapMaxKey == 3

HeapKeys == 0..HeapMaxKey

HeapPriorities == {0, 1, 2}

\* No graph is involved, and no Dijkstra run besides its queue.
HeapAlone ==
  /\ g = <<>>
  /\ adj = "None"
  /\ costs = <<>>
  /\ v0 = 0
  /\ distances = <<>>
  /\ cur = None
  /\ DfIdle
  /\ MutIdle

InitHeapBatch ==
  /\ queue = HeapNew(MapWithCapacity(None))
  /\ ret = None
  /\ passed = [k \in HeapKeys |-> {}]
  /\ popped = <<>>
  /\ pc = "calls"
  /\ HeapAlone

InitHeapMixed ==
  /\ queue = HeapNew(MapWithCapacity(None))
  /\ ret = None
  /\ passed = <<>>
  /\ popped = <<>>
  /\ pc = "mixed"
  /\ HeapAlone

\* heap.try_decrease(key, value)
HeapTryDecrease ==
  /\ pc \in {"calls", "mixed"}
  /\ \E key \in HeapKeys, p \in HeapPriorities :
       LET r == TryDecrease(queue, key, NewDistance(p))
       IN  /\ queue' = r.h
           /\ ret' = IF pc = "mixed"
                     THEN Some([op |-> "try_decrease", key |-> key, value |-> p,
                                result |-> r.result])
                     ELSE ret
           /\ passed' = IF pc = "calls"
                        THEN [passed EXCEPT ![key] = @ \cup {p}]
                        ELSE passed
  /\ UNCHANGED <<graphVars, dfVars, mutVars, costs, v0, distances, cur, popped, pc>>

\* heap.pop(); a batch run ends when it returns None.
HeapPop ==
  /\ pc \in {"calls", "pops", "mixed"}
  /\ LET r == Pop(queue)
     IN  /\ queue' = r.h
         /\ ret' = IF pc = "mixed" THEN Some([op |-> "pop", result |-> r.result]) ELSE ret
         /\ pc' = IF pc = "mixed" THEN "mixed"
                  ELSE IF r.result = None THEN "done" ELSE "pops"
         /\ popped' = IF pc = "mixed" \/ r.result = None THEN popped
                      ELSE Append(popped, Unwrap(r.result))
  /\ UNCHANGED <<graphVars, dfVars, mutVars, costs, v0, distances, cur, passed>>

NextHeap == HeapTryDecrease \/ HeapPop

SpecHeapBatch == InitHeapBatch /\ [][NextHeap]_vars

SpecHeapMixed == InitHeapMixed /\ [][NextHeap]_vars

(***************************************************************************)
(* Claims about the heap.                                                  *)
(***************************************************************************)
\* The least value passed for a key in the batch.
Minimum(ps) == CHOOSE m \in ps : \A q \in ps : m <= q

\* The positions of the history at which key k was popped.
PopsOf(k) == {i \in 1..Len(popped) : popped[i][1] = k}

\* C14: after any sequence of try_decrease calls on a fresh heap, popping
\* until the heap is empty yields priorities in non-decreasing order.
C14_PopsNonDecreasing ==
  pc \in {"pops", "done"} =>
    \A i \in 1..(Len(popped) - 1) : Leq(popped[i][2], popped[i + 1][2])

\* Four keys, the root's left child and the last item at the same priority
\* and the right child below them, popped to the end.
C14_Witness ==
  /\ pc = "done"
  /\ Len(popped) = 4
  /\ [i \in 1..4 |-> popped[i][2].cost] = <<0, 0, 1, 1>>
  /\ passed[popped[2][1]] = {0, 2}

\* C15: in such a run every key passed to try_decrease is popped exactly
\* once, with the least priority ever passed for it, and nothing else is
\* popped.
C15_EachKeyOnceAtMinimum ==
  /\ pc \in {"pops", "done"} =>
       \A i \in 1..Len(popped) :
         /\ passed[popped[i][1]] # {}
         /\ PopsOf(popped[i][1]) = {i}
         /\ popped[i][2] = NewDistance(Minimum(passed[popped[i][1]]))
  /\ pc = "done" => \A k \in HeapKeys : passed[k] # {} => PopsOf(k) # {}

\* Key 1 was passed 2, 1 and 0 and key 3 only 1; key 0 never.
C15_Witness ==
  /\ pc = "done"
  /\ passed = [k \in HeapKeys |-> IF k = 1 THEN {0, 1, 2} ELSE IF k = 3 THEN {1} ELSE {}]
  /\ popped = <<<<1, NewDistance(0)>>, <<3, NewDistance(1)>>>>

\* The items of a heap, and the slots holding key k.
HeapItems(h) == {Unwrap(h.heap[i]) : i \in 1..Len(h.heap)}

KeySlots(h, k) == {i \in 1..Len(h.heap) : Unwrap(h.heap[i])[1] = k}

\* The last call was op.
Called(r, op) == IsSome(r) /\ Unwrap(r).op = op

\* C16: under any interleaving of try_decrease and pop, a pop on a non-empty
\* heap returns an item of the heap whose priority is least among all items,
\* removes exactly that key and leaves every other key with its priority.
C16_PopTakesLeast ==
  [][(Called(ret', "pop") /\ queue.heap # <<>>) =>
       LET res == Unwrap(ret').result
       IN  /\ IsSome(res)
           /\ Unwrap(res) \in HeapItems(queue)
           /\ \A o \in HeapItems(queue) : Leq(Unwrap(res)[2], o[2])
           /\ HeapItems(queue') = HeapItems(queue) \ {Unwrap(res)}
           /\ Len(queue'.heap) = Len(queue.heap) - 1
           /\ \A k \in HeapKeys : Cardinality(KeySlots(queue', k)) <= 1
           /\ MapGet(queue'.map, Unwrap(res)[1]) = None]_vars

\* A pop among mixed calls took key 2 at priority 0 from four items and left
\* three at priorities 1, 1 and 2.
C16_Witness ==
  /\ pc = "mixed"
  /\ ret = Some([op |-> "pop", result |-> Some(<<2, NewDistance(0)>>)])
  /\ HeapItems(queue) = {<<0, NewDistance(1)>>, <<1, NewDistance(2)>>, <<3, NewDistance(1)>>}

\* C17: try_decrease(key, value) returns false, leaving the array and the
\* map as they are, exactly when the key is in the heap with a priority
\* <= value; otherwise it returns true and the key is then in the heap
\* exactly once, with priority value.
C17_TryDecreaseResult ==
  [][Called(ret', "try_decrease") =>
       LET c == Unwrap(ret')
           kept == \E i \in KeySlots(queue, c.key) :
                     Leq(Unwrap(queue.heap[i])[2], NewDistance(c.value))
       IN  /\ c.result = ~kept
           /\ ~c.result => queue' = queue
           /\ c.result =>
                /\ Cardinality(KeySlots(queue', c.key)) = 1
                /\ \A i \in KeySlots(queue', c.key) :
                     queue'.heap[i] = Some(<<c.key, NewDistance(c.value)>>)]_vars

\* Key 1 is queued at priority 1 and a call with the equal priority 1 was
\* refused.
C17_Witness ==
  /\ pc = "mixed"
  /\ ret = Some([op |-> "try_decrease", key |-> 1, value |-> 1, result |-> FALSE])
  /\ <<1, NewDistance(1)>> \in HeapItems(queue)
  /\ Len(queue.heap) = 3

\* C18: pop on an empty heap, fresh or emptied by pops, returns None and
\* leaves the array and the map as they are.
C18_PopOnEmpty ==
  [][(Called(ret', "pop") /\ queue.heap = <<>>) =>
       /\ Unwrap(ret').result = None
       /\ queue' = queue]_vars

\* A heap that held all four keys, emptied by pops, and popped once more.
C18_Witness ==
  /\ pc = "mixed"
  /\ ret = Some([op |-> "pop", result |-> None])
  /\ queue.heap = <<>>
  /\ queue.map.values = [i \in 1..(HeapMaxKey + 1) |-> None]

(***************************************************************************)
(* Specification of a graph under mutation: a client of one of the         *)
(* representations calls insert_vert, insert_edge and, where the           *)
(* representation has them, remove_edge and remove_vert, with handles it   *)
(* was given and has not removed.  live is the client's record: the        *)
(* vertices it holds and, for each edge it holds, the pair it passed to    *)
(* insert_edge.                                                            *)
(***************************************************************************)
\* Edges a client holds at once.
MutMaxEdges == 2

Representations ==
  {"DenseOut", "DenseIn", "DenseBi", "SparseEdge", "SparseOut", "SparseIn", "SparseBi"}

InitMut ==
  /\ \E repr \in Representations : g = NewGraph(repr)
  /\ live = [verts |-> {}, edges |-> Without(<<>>, 0)]
  /\ maps = <<>>
  /\ ret = None
  /\ pc = "mutate"
  /\ adj = "None"
  /\ costs = <<>>
  /\ v0 = 0
  /\ queue = <<>>
  /\ distances = <<>>
  /\ cur = None
  /\ popped = <<>>
  /\ passed = <<>>
  /\ DfIdle

\* The outcome of a call: the new graph and record, or a panic, which
\* leaves the graph as the call had made it by then.
MutStep(op, r, newLive) ==
  /\ g' = r.g
  /\ ret' = Some(op)
  /\ IF r.ok
     THEN /\ live' = newLive
          /\ pc' = pc
     ELSE /\ live' = live
          /\ pc' = "panicked"

MutFrame == UNCHANGED <<adj, dfVars, costs, v0, queue, distances, cur, popped, passed, maps>>

\* let v = g.insert_vert()
MutInsertVert ==
  /\ pc = "mutate"
  /\ Cardinality(live.verts) < MaxVerts
  /\ LET r == InsertVertResult(g)
     IN  MutStep([op |-> "insert_vert", result |-> r.key], r,
                 [live EXCEPT !.verts = @ \cup {r.key}])
  /\ MutFrame

\* let e = g.insert_edge(tail, head)
MutInsertEdge ==
  /\ pc = "mutate"
  /\ Cardinality(DOMAIN live.edges) < MutMaxEdges
  /\ \E tail \in live.verts, head \in live.verts :
       LET r == InsertEdgeResult(g, tail, head)
       IN  MutStep([op |-> "insert_edge", tail |-> tail, head |-> head, result |-> r.key], r,
                   [live EXCEPT !.edges = Put(@, r.key, <<tail, head>>)])
  /\ MutFrame

\* g.remove_edge(e), the handle being any: live, removed or never issued.
MutRemoveEdge ==
  /\ pc = "mutate"
  /\ EdgesSparse(g.repr)
  /\ \E e \in 0..MutMaxEdges :
       MutStep([op |-> "remove_edge", edge |-> e], RemoveEdgeResult(g, e),
               [live EXCEPT !.edges = Without(@, e)])
  /\ MutFrame

\* The record without the edges that have v as an endpoint.
WithoutVert(lv, v) ==
  [verts |-> lv.verts \ {v},
   edges |-> [e \in {x \in DOMAIN lv.edges : v \notin {lv.edges[x][1], lv.edges[x][2]}}
                |-> lv.edges[e]]]

\* g.remove_vert(v), which removes the edges at v with it, the handle being
\* any: live, removed or never issued.
MutRemoveVert ==
  /\ pc = "mutate"
  /\ g.repr = "SparseBi"
  /\ \E v \in 0..MaxVerts :
       \E outs \in Orders(IF HasVert(g, v) THEN VertValue(g, v)[1] ELSE {}),
          ins \in Orders(IF HasVert(g, v) THEN VertValue(g, v)[2] ELSE {}) :
         MutStep([op |-> "remove_vert", vert |-> v],
                 SparseBiRemoveVert(g, v, outs, ins), WithoutVert(live, v))
  /\ MutFrame

NextMut == MutInsertVert \/ MutInsertEdge \/ MutRemoveEdge \/ MutRemoveVert

SpecMut == InitMut /\ [][NextMut]_vars

(***************************************************************************)
(* Claims about the representations under mutation.                        *)
(***************************************************************************)
\* C19: for every representation, after any sequence of insertions and
\* (where supported) removals, verts() and edges() yield exactly the handles
\* inserted and not since removed, each once; a removed handle is absent
\* until an insertion returns it again.
C19_IterationIsLive ==
  pc = "mutate" =>
    /\ NoDuplicates(Verts(g))
    /\ Range(Verts(g)) = live.verts
    /\ NoDuplicates(Edges(g))
    /\ Range(Edges(g)) = DOMAIN live.edges

\* A sparse bi-adjacency list from which vertex 1 was removed, and with it
\* edge 0, leaving vertices 0 and 2 and edge 1 between them.
C19_Witness ==
  /\ g.repr = "SparseBi"
  /\ ret = Some([op |-> "remove_vert", vert |-> 1])
  /\ live.verts = {0, 2}
  /\ DOMAIN live.edges = {1}
  /\ g.verts.free = <<1>>
  /\ g.edges.free = <<0>>

\* C20: for every representation and every live edge e, endpoints(e) is the
\* pair passed to the insert_edge call that returned e, tail(e) and head(e)
\* are its components, and this stays so across later insertions and
\* removals of other vertices and edges.
C20_EndpointsAsInserted ==
  pc = "mutate" =>
    \A e \in DOMAIN live.edges :
      /\ Endpoints(g, e) = live.edges[e]
      /\ TailOf(g, e) = live.edges[e][1]
      /\ HeadOf(g, e) = live.edges[e][2]

\* Edge 1 = (2, 0) is still held after edge 0 was removed and its handle
\* given to a new edge (0, 1).
C20_Witness ==
  /\ g.repr = "SparseOut"
  /\ ret = Some([op |-> "insert_edge", tail |-> 0, head |-> 1, result |-> 0])
  /\ DOMAIN live.edges = {0, 1}
  /\ live.edges[1] = <<2, 0>>
  /\ Endpoints(g, 1) = <<2, 0>>
  /\ g.edges.free = <<>>
  /\ g.edges.next = 2

\* C21: for every representation with out-adjacency (resp. in-adjacency),
\* after any sequence of insertions and removals, out_edges(v) (resp.
\* in_edges(v)) of every live vertex yields exactly the live edges whose tail
\* (resp. head) is v, each once; so a live edge is in the adjacency of
\* exactly one vertex and a removed edge in none.
C21_AdjacencyIsLive ==
  pc = "mutate" =>
    \A v \in live.verts :
      /\ HasOut(g.repr) =>
           /\ NoDuplicates(OutEdges(g, v))
           /\ Range(OutEdges(g, v)) = {e \in DOMAIN live.edges : live.edges[e][1] = v}
      /\ HasIn(g.repr) =>
           /\ NoDuplicates(InEdges(g, v))
           /\ Range(InEdges(g, v)) = {e \in DOMAIN live.edges : live.edges[e][2] = v}

\* A sparse out-adjacency list after edge 0 = (0, 1) was removed: vertex 0
\* keeps its other out-edge 1 = (0, 0) alone.
C21_Witness ==
  /\ g.repr = "SparseOut"
  /\ ret = Some([op |-> "remove_edge", edge |-> 0])
  /\ DOMAIN live.edges = {1}
  /\ live.edges[1] = <<0, 0>>
  /\ OutEdges(g, 0) = <<1>>
  /\ g.edges.free = <<0>>

\* C22: for every representation, after any sequence of insertions and
\* removals in which insert_edge is given live vertices, both endpoints of
\* every edge of edges() are vertices of verts(); remove_vert leaves no edge
\* at the removed vertex.
C22_EndpointsAreLive ==
  pc = "mutate" =>
    \A e \in Range(Edges(g)) :
      /\ TailOf(g, e) \in Range(Verts(g))
      /\ HeadOf(g, e) \in Range(Verts(g))

\* Vertex 0 was removed from a sparse bi-adjacency list and edge 1 = (1, 2)
\* remains, between the two vertices that remain.
C22_Witness ==
  /\ g.repr = "SparseBi"
  /\ ret = Some([op |-> "remove_vert", vert |-> 0])
  /\ Range(Verts(g)) = {1, 2}
  /\ Range(Edges(g)) = {1}
  /\ Endpoints(g, 1) = <<1, 2>>
  /\ g.edges.free = <<0>>

\* The edges of gr that have v as tail or head.
EdgesAt(gr, v) == {e \in Range(Edges(gr)) : v \in {TailOf(gr, e), HeadOf(gr, e)}}

\* C23: remove_vert(v) on a live vertex of a sparse bi-adjacency list
\* succeeds, removes v and every edge with v as tail or head, each once
\* (self-loops and parallel edges included); afterwards no adjacency of a
\* remaining vertex holds a removed edge, and every other edge is live with
\* the endpoints it had.
C23_RemoveVert ==
  [][(Called(ret', "remove_vert") /\ HasVert(g, Unwrap(ret').vert)) =>
          LET v == Unwrap(ret').vert
              gone == EdgesAt(g, v)
              freed == SubSeq(g'.edges.free, Len(g.edges.free) + 1, Len(g'.edges.free))
          IN  /\ pc' = "mutate"
              /\ Range(Verts(g')) = Range(Verts(g)) \ {v}
              /\ Range(Edges(g')) = Range(Edges(g)) \ gone
              /\ SubSeq(g'.edges.free, 1, Len(g.edges.free)) = g.edges.free
              /\ Range(freed) = gone
              /\ NoDuplicates(freed)
              /\ g'.verts.free = Append(g.verts.free, v)
              /\ \A e \in Range(Edges(g')) : Endpoints(g', e) = Endpoints(g, e)
              /\ \A u \in Range(Verts(g')) :
                   /\ VertValue(g', u)[1] = VertValue(g, u)[1] \ gone
                   /\ VertValue(g', u)[2] = VertValue(g, u)[2] \ gone]_vars

\* The middle vertex of a two-edge path on three vertices was removed: both
\* edges are gone, first the out-edge 1 and then the in-edge 0, and the two
\* vertices left have empty adjacencies.
C23_Witness ==
  /\ pc = "mutate"
  /\ g.repr = "SparseBi"
  /\ ret = Some([op |-> "remove_vert", vert |-> 1])
  /\ Range(Verts(g)) = {0, 2}
  /\ Edges(g) = <<>>
  /\ g.edges.free = <<1, 0>>
  /\ VertValue(g, 0) = <<{}, {}>>
  /\ VertValue(g, 2) = <<{}, {}>>

(***************************************************************************)
(* Handles at the limit of their width.  A handle is an Index(u32) made    *)
(* from a usize by Index::from.  Numbers of that size are kept as two      *)
(* limbs <<high, low>> of sixteen bits each, the high limb of a usize      *)
(* being free to exceed sixteen bits.                                      *)
(***************************************************************************)
LimbBase == 2^16

\* n + k for a small k
UsizeAdd(n, k) == <<n[1] + ((n[2] + k) \div LimbBase), (n[2] + k) % LimbBase>>

UsizeLess(a, b) == a[1] < b[1] \/ (a[1] = b[1] /\ a[2] < b[2])

\* std::u32::MAX
U32Max == <<LimbBase - 1, LimbBase - 1>>

\* The value is one a u32 holds.
FitsU32(n) == n[1] < LimbBase

\* value as u32: the low 32 bits
AsU32(n) == <<n[1] % LimbBase, n[2]>>

\* Index::from(value): with feature sif_index_niche the value is asserted to
\* be below u32::MAX, without it the value is cast.
IndexFrom(niche, value) ==
  [ok |-> niche => UsizeLess(value, U32Max), index |-> AsU32(value)]

\* dense::Domain<K, ()>::insert(()): the values are zero-sized, so that the
\* domain is its length.  A failed assertion leaves before the push.
UnitDomainInsert(d) ==
  LET key == IndexFrom(d.niche, d.len)
  IN  [ok |-> key.ok,
       key |-> key.index,
       d |-> IF key.ok THEN [d EXCEPT !.len = UsizeAdd(@, 1)] ELSE d]

\* dense::Domain::keys() holds k: (0..self.len()).map_into() yields it.
UnitDomainHasKey(d, k) == UsizeLess(k, d.len)

(***************************************************************************)
(* Specification of a domain of unit values (the vertices of an edge list) *)
(* that holds nearly 2^32 elements, in either build, and is inserted       *)
(* into.                                                                   *)
(***************************************************************************)
CapWindow == 40

CapStart == <<LimbBase - 1, LimbBase - CapWindow>>

InitCap ==
  /\ \E niche \in BOOLEAN, i \in 0..(CapWindow - 1) :
       g = [niche |-> niche, len |-> UsizeAdd(CapStart, i)]
  /\ ret = None
  /\ pc = "capacity"
  /\ adj = "None"
  /\ costs = <<>>
  /\ v0 = 0
  /\ queue = <<>>
  /\ distances = <<>>
  /\ cur = None
  /\ popped = <<>>
  /\ passed = <<>>
  /\ MutIdle
  /\ DfIdle

\* let key = domain.insert(())
CapInsert ==
  /\ pc = "capacity"
  /\ UsizeLess(g.len, UsizeAdd(CapStart, 2 * CapWindow))
  /\ LET r == UnitDomainInsert(g)
     IN  /\ g' = r.d
         /\ ret' = Some([op |-> "insert", ok |-> r.ok, result |-> r.key])
         /\ pc' = IF r.ok THEN pc ELSE "panicked"
  /\ UNCHANGED <<adj, dfVars, costs, v0, queue, distances, cur, popped, passed, mutVars>>

NextCap == CapInsert

SpecCap == InitCap /\ [][NextCap]_vars

(***************************************************************************)
(* Claims about handles.                                                   *)
(***************************************************************************)
\* The handle k is one that dense::Domain::insert may return for d: the
\* element count, which no element has.
DenseFresh(d, k) == k = Len(d) /\ k \notin Range(DomainKeys(d))

\* The handle k is one that sparse::Domain::insert may return for d: not
\* live, and either the handle removed last of those awaiting reuse or,
\* when none awaits reuse, one above every handle issued.
SparseFresh(d, k) ==
  /\ k \notin DOMAIN d.values
  /\ IF d.free # <<>>
     THEN k = d.free[Len(d.free)]
     ELSE k = d.next /\ \A j \in DOMAIN d.values : j < k

\* C24: an insertion never returns a handle that is live when it is called.
\* A dense domain returns its element count; a sparse domain returns a
\* handle that was removed and is dead, or one never issued.  This is so
\* for insert_vert and insert_edge of every representation, and for a
\* domain that holds 2^32 elements or nearly so.
C24_InsertReturnsFresh ==
  [][/\ (pc' = "mutate" /\ Called(ret', "insert_vert")) =>
          IF VertsSparse(g.repr)
          THEN SparseFresh(g.verts, Unwrap(ret').result)
          ELSE DenseFresh(g.verts, Unwrap(ret').result)
     /\ (pc' = "mutate" /\ Called(ret', "insert_edge")) =>
          IF EdgesSparse(g.repr)
          THEN SparseFresh(g.edges, Unwrap(ret').result)
          ELSE DenseFresh(g.edges, Unwrap(ret').result)
     /\ (pc' = "capacity" /\ Called(ret', "insert")) =>
          /\ ~UnitDomainHasKey(g, Unwrap(ret').result)
          /\ Unwrap(ret').result = g.len]_vars

\* C30: an insertion into a domain whose next index does not fit the 32
\* bits of a handle fails at once and leaves the domain as it was: it never
\* returns the index reduced modulo 2^32.
C30_OutOfRangeFailsFast ==
  [][(pc = "capacity" /\ ~FitsU32(g.len)) => (pc' = "panicked" /\ g' = g)]_vars

\* C25: remove_edge or remove_vert with a handle that is not live (never
\* issued, or removed and not issued again) panics and leaves the graph as
\* it was: the live handles, the stored values, the free lists (the handle
\* is not pushed a second time) and the adjacency sets.
C25_RemoveDeadFails ==
  [][/\ (Called(ret', "remove_edge") /\ Unwrap(ret').edge \notin Range(Edges(g))) =>
          (pc' = "panicked" /\ g' = g /\ live' = live)
     /\ (Called(ret', "remove_vert") /\ Unwrap(ret').vert \notin Range(Verts(g))) =>
          (pc' = "panicked" /\ g' = g /\ live' = live)]_vars

\* A sparse bi-adjacency list panicked on the second remove_edge of an edge
\* that awaits reuse, while another edge is live.
C25_Witness ==
  /\ pc = "panicked"
  /\ g.repr = "SparseBi"
  /\ Called(ret, "remove_edge")
  /\ Unwrap(ret).edge \in Range(g.edges.free)
  /\ Edges(g) # <<>>
  /\ NoDuplicates(g.edges.free)

(***************************************************************************)
(* isomorphic_from: a graph of another representation built from a graph,  *)
(* with the maps from the vertices and edges of the one to those of the    *)
(* other.                                                                  *)
(***************************************************************************)
\* ephemeral_vert_map / ephemeral_edge_map: a sparse::Map or a dense::Map.
NewMap(sparse, default) ==
  [sparse |-> sparse,
   m |-> IF sparse THEN SparseMapNew(default) ELSE MapWithCapacity(default)]

AnyMapGet(mp, k) == IF mp.sparse THEN SparseMapGet(mp.m, k) ELSE MapGet(mp.m, k)

AnyMapSet(mp, k, x) ==
  [mp EXCEPT !.m = IF mp.sparse THEN SparseMapSet(@, k, x) ELSE MapSet(@, k, x)]

\* *vmap.get_mut(v) = Some(to.insert_vert()), r being what insert_vert gave
IsoVertStep(st, v, r) ==
  [ok |-> r.ok, to |-> r.g, vmap |-> AnyMapSet(st.vmap, v, Some(r.key))]

\* for v in from.verts() { *vmap.get_mut(v) = Some(to.insert_vert()); }
RECURSIVE IsoVertLoop(_, _)
IsoVertLoop(st, vs) ==
  IF vs = <<>> \/ ~st.ok THEN st
  ELSE IsoVertLoop(IsoVertStep(st, Head(vs), InsertVertResult(st.to)), Tail(vs))

\* for e in from.edges() { ... *emap.get_mut(e) = Some(to.insert_edge(..)); }
\* ok is FALSE when an expect or the insertion panics.
\* *emap.get_mut(e) = Some(..), r being what insert_edge gave
IsoEdgeInserted(st, e, r) ==
  [ok |-> r.ok, to |-> r.g, emap |-> AnyMapSet(st.emap, e, Some(r.key))]

\* *emap.get_mut(e) = Some(to.insert_edge(tail, head)), tail and head being
\* what vmap holds for the endpoints of e; an expect on None panics.
IsoEdgeStep(st, e, tail, head) ==
  IF tail = None \/ head = None THEN [st EXCEPT !.ok = FALSE]
  ELSE IsoEdgeInserted(st, e, InsertEdgeResult(st.to, Unwrap(tail), Unwrap(head)))

RECURSIVE IsoEdgeLoop(_, _, _, _)
IsoEdgeLoop(st, from, vmap, es) ==
  IF es = <<>> \/ ~st.ok THEN st
  ELSE IsoEdgeLoop(IsoEdgeStep(st, Head(es),
                               AnyMapGet(vmap, Endpoints(from, Head(es))[1]),
                               AnyMapGet(vmap, Endpoints(from, Head(es))[2])),
                   from, vmap, Tail(es))

\* InsertGraph::isomorphic_from into the representation repr, from.verts()
\* and from.edges() yielding vs and es.
InsertIsomorphicFrom(repr, from, vs, es) ==
  LET a == IsoVertLoop([ok |-> TRUE, to |-> NewGraph(repr),
                        vmap |-> NewMap(VertsSparse(from.repr), None)], vs)
      b == IsoEdgeLoop([ok |-> a.ok, to |-> a.to,
                        emap |-> NewMap(EdgesSparse(from.repr), None)],
                       from, a.vmap, es)
  IN  [ok |-> b.ok, g |-> b.to, vmap |-> a.vmap, emap |-> b.emap]

\* for (order, v) in from.verts().enumerate() { *vmap.get_mut(v) = Some(order) }
RECURSIVE EnumerateVerts(_, _, _)
EnumerateVerts(vmap, vs, order) ==
  IF vs = <<>> THEN vmap
  ELSE EnumerateVerts(AnyMapSet(vmap, Head(vs), Some(order)), Tail(vs), order + 1)

\* The adjacency set of a vertex of from as it is iterated: a Vec in its
\* order, a HashSet in the order that es gives its elements.
Arrange(from, edgeSet, es) ==
  IF EdgesSparse(from.repr) THEN SelectSeq(es, LAMBDA e : e \in {edgeSet[i] : i \in DOMAIN edgeSet})
  ELSE edgeSet

\* An inner loop that maps the edge to the handle after the one it gets.
RECURSIVE ImmEdgeLoop_MapsAfterInsert(_, _, _, _, _)
ImmEdgeLoop_MapsAfterInsert(st, from, vmap, out, es) ==
  IF es = <<>> \/ ~st.ok THEN st
  ELSE LET e == Head(es)
           far == AnyMapGet(vmap, IF out THEN HeadOf(from, e) ELSE TailOf(from, e))
       IN  IF far = None THEN [st EXCEPT !.ok = FALSE]
           ELSE ImmEdgeLoop_MapsAfterInsert(
                  [ok |-> TRUE,
                   others |-> Append(st.others, Unwrap(far)),
                   emap |-> AnyMapSet(st.emap, e, Some(Len(st.others) + 1))],
                  from, vmap, out, Tail(es))

\* The inner loop of the immutable lists' isomorphic_from:
\* let e_prime = heads.len().into(); *emap.get_mut(e) = Some(e_prime);
\* heads.insert(vmap.get(head).borrow().expect("head in verts"));
RECURSIVE ImmEdgeLoop(_, _, _, _, _)
ImmEdgeLoop(st, from, vmap, out, es) ==
  IF es = <<>> \/ ~st.ok THEN st
  ELSE LET e == Head(es)
           far == AnyMapGet(vmap, IF out THEN HeadOf(from, e) ELSE TailOf(from, e))
       IN  IF far = None THEN [st EXCEPT !.ok = FALSE]
           ELSE ImmEdgeLoop([ok |-> TRUE,
                             others |-> Append(st.others, Unwrap(far)),
                             emap |-> AnyMapSet(st.emap, e, Some(Len(st.others)))],
                            from, vmap, out, Tail(es))

\* An outer loop that records the offset of a vertex after its edges.
RECURSIVE ImmVertLoop_OffsetAfter(_, _, _, _, _, _)
ImmVertLoop_OffsetAfter(st, from, vmap, out, vs, es) ==
  IF vs = <<>> \/ ~st.ok THEN st
  ELSE LET near == IF out THEN OutEdges(from, Head(vs)) ELSE InEdges(from, Head(vs))
           inner == ImmEdgeLoop([ok |-> TRUE, others |-> st.others, emap |-> st.emap],
                                from, vmap, out, Arrange(from, near, es))
       IN  ImmVertLoop_OffsetAfter(
             [ok |-> inner.ok,
              offsets |-> Append(st.offsets, Len(inner.others)),
              others |-> inner.others,
              emap |-> inner.emap],
             from, vmap, out, Tail(vs), es)

\* The outer loop: for tail in from.verts() { outs.insert(heads.len()); ... }
RECURSIVE ImmVertLoop(_, _, _, _, _, _)
ImmVertLoop(st, from, vmap, out, vs, es) ==
  IF vs = <<>> \/ ~st.ok THEN st
  ELSE LET near == IF out THEN OutEdges(from, Head(vs)) ELSE InEdges(from, Head(vs))
           inner == ImmEdgeLoop([ok |-> TRUE, others |-> st.others, emap |-> st.emap],
                                from, vmap, out, Arrange(from, near, es))
       IN  ImmVertLoop([ok |-> inner.ok,
                        offsets |-> Append(st.offsets, Len(st.others)),
                        others |-> inner.others,
                        emap |-> inner.emap],
                       from, vmap, out, Tail(vs), es)

\* Immutable{Out,In}AdjacencyList::isomorphic_from.
ImmIsomorphicFrom(repr, from, vs, es) ==
  LET out == repr = "ImmutableOut"
      vmap == EnumerateVerts(NewMap(VertsSparse(from.repr), None), vs, 0)
      st == ImmVertLoop([ok |-> TRUE, offsets |-> <<>>, others |-> <<>>,
                         emap |-> NewMap(EdgesSparse(from.repr), None)],
                        from, vmap, out, vs, es)
      offsets == Append(st.offsets, Len(st.others))
  IN  [ok |-> st.ok,
       g |-> IF out THEN [repr |-> repr, outs |-> offsets, heads |-> st.others]
             ELSE [repr |-> repr, ins |-> offsets, tails |-> st.others],
       vmap |-> vmap,
       emap |-> st.emap]

\* R::isomorphic_from(from) for a representation R.
IsomorphicFrom(repr, from, vs, es) ==
  IF IsImmutable(repr) THEN ImmIsomorphicFrom(repr, from, vs, es)
  ELSE InsertIsomorphicFrom(repr, from, vs, es)

\* Homomorphism::map_vert and map_edge: the Option in the map, unwrapped.
MapVert(h, v) == Unwrap(AnyMapGet(h.vmap, v))

MapEdge(h, e) == Unwrap(AnyMapGet(h.emap, e))

(***************************************************************************)
(* Specification of a graph that is mutated and then given to              *)
(* isomorphic_from of some representation.  The vertices and edges of a    *)
(* sparse graph are iterated in any order.                                 *)
(***************************************************************************)
Targets == Representations \cup {"ImmutableOut", "ImmutableIn"}

VertOrders(gr) ==
  IF VertsSparse(gr.repr) THEN Orders(Range(Verts(gr))) ELSE {Verts(gr)}

EdgeOrders(gr) ==
  IF EdgesSparse(gr.repr) THEN Orders(Range(Edges(gr))) ELSE {Edges(gr)}

\* let (to, homomorphism) = R::isomorphic_from(&g)
MutIsomorphicFrom ==
  /\ pc = "mutate"
  /\ \E target \in Targets, vs \in VertOrders(g), es \in EdgeOrders(g) :
       /\ target = "ImmutableOut" => HasOut(g.repr)
       /\ target = "ImmutableIn" => HasIn(g.repr)
       /\ LET r == IsomorphicFrom(target, g, vs, es)
          IN  /\ ret' = Some([op |-> "isomorphic_from", target |-> target,
                              to |-> r.g, vmap |-> r.vmap, emap |-> r.emap])
              /\ pc' = IF r.ok THEN "converted" ELSE "panicked"
  /\ UNCHANGED <<g, live>>
  /\ MutFrame

NextIso == NextMut \/ MutIsomorphicFrom

SpecIso == InitMut /\ [][NextIso]_vars

\* C26: for every source graph and every target representation (dense,
\* sparse, immutable), isomorphic_from returns a graph and two maps such
\* that the vertex map is a bijection from the vertices of the source to
\* those of the result, the edge map a bijection from edges to edges, and
\* the endpoints of a mapped edge are the mapped tail and head of the edge.
C26_IsomorphicFrom ==
  Called(ret, "isomorphic_from") =>
    LET h == Unwrap(ret)
        vs == Range(Verts(g))
        es == Range(Edges(g))
    IN  /\ pc = "converted"
        /\ \A v \in vs : IsSome(AnyMapGet(h.vmap, v))
        /\ \A e \in es : IsSome(AnyMapGet(h.emap, e))
        /\ NoDuplicates(Verts(h.to))
        /\ NoDuplicates(Edges(h.to))
        /\ {MapVert(h, v) : v \in vs} = Range(Verts(h.to))
        /\ \A u \in vs, v \in vs : MapVert(h, u) = MapVert(h, v) => u = v
        /\ {MapEdge(h, e) : e \in es} = Range(Edges(h.to))
        /\ \A d \in es, e \in es : MapEdge(h, d) = MapEdge(h, e) => d = e
        /\ \A e \in es :
             Endpoints(h.to, MapEdge(h, e)) =
               <<MapVert(h, TailOf(g, e)), MapVert(h, HeadOf(g, e))>>

\* A sparse bi-adjacency list with the vertices 0 and 2 (vertex 1 was
\* removed) and an edge from 2 to 0 was made an immutable out-list, vertex 2
\* being iterated first: vertex 2 became 0, vertex 0 became 1 and the edge
\* goes from 0 to 1.
C26_Witness ==
  /\ pc = "converted"
  /\ g.repr = "SparseBi"
  /\ Called(ret, "isomorphic_from")
  /\ Unwrap(ret).target = "ImmutableOut"
  /\ Range(Verts(g)) = {0, 2}
  /\ g.verts.free = <<1>>
  /\ \E e \in Range(Edges(g)) :
       /\ Endpoints(g, e) = <<2, 0>>
       /\ MapVert(Unwrap(ret), 2) = 0
       /\ MapVert(Unwrap(ret), 0) = 1
       /\ Endpoints(Unwrap(ret).to, MapEdge(Unwrap(ret), e)) = <<0, 1>>

\* The edges of gr that have v as tail (out) or as head.
EdgesNear(gr, out, v) ==
  {e \in Range(Edges(gr)) : (IF out THEN TailOf(gr, e) ELSE HeadOf(gr, e)) = v}

\* C27: in an immutable out-list (in-list) the offset array has one entry
\* per vertex and one more, is non-decreasing, starts at 0 and ends with
\* the number of edges; the tail (head) found by partition point is the one
\* vertex v with offset[v] <= e < offset[v + 1]; out_edges(v) (in_edges(v))
\* yields exactly the edges with that tail (head), each once, as many as the
\* vertex has in the source, whichever vertices have none.
C27_OffsetsPartition ==
  (Called(ret, "isomorphic_from") /\ IsImmutable(Unwrap(ret).target)) =>
    LET h == Unwrap(ret)
        out == h.target = "ImmutableOut"
        offset == ImmOffsets(h.to)
        order == Cardinality(Range(Verts(g)))
        size == Len(Edges(g))
    IN  /\ Len(offset) = order + 1
        /\ offset[1] = 0
        /\ \A i \in 1..order : offset[i] <= offset[i + 1]
        /\ offset[order + 1] = size
        /\ Len(ImmOthers(h.to)) = size
        /\ \A e \in 0..(size - 1) :
             /\ offset[ImmNear(h.to, e) + 1] <= e
             /\ e < offset[ImmNear(h.to, e) + 2]
             /\ \A u \in 0..(order - 1) :
                  (offset[u + 1] <= e /\ e < offset[u + 2]) => u = ImmNear(h.to, e)
        /\ \A v \in Range(Verts(h.to)) :
             /\ NoDuplicates(ImmAdjEdges(h.to, v))
             /\ Range(ImmAdjEdges(h.to, v)) = EdgesNear(h.to, out, v)
        /\ \A u \in Range(Verts(g)) :
             Len(ImmAdjEdges(h.to, MapVert(h, u))) = Cardinality(EdgesNear(g, out, u))

\* An immutable out-list of three vertices whose two edges both leave the
\* last vertex: the first two vertices, next to each other, have no edge.
C27_Witness ==
  /\ pc = "converted"
  /\ Called(ret, "isomorphic_from")
  /\ Unwrap(ret).target = "ImmutableOut"
  /\ Unwrap(ret).to.outs = <<0, 0, 0, 2>>
  /\ TailOf(Unwrap(ret).to, 0) = 2
  /\ TailOf(Unwrap(ret).to, 1) = 2
  /\ OutEdges(Unwrap(ret).to, 2) = <<0, 1>>
  /\ OutEdges(Unwrap(ret).to, 0) = <<>>

(***************************************************************************)
(* Specification of a map used on its own: a dense or a sparse map of      *)
(* Option values with default None, read and written at any key.  Of the   *)
(* run the value last written to each key is kept.                         *)
(***************************************************************************)
MapMaxKey == 3

MapKeys == 0..MapMaxKey

MapValues == {None, Some(1), Some(2)}

InitMap ==
  /\ \E sparse \in BOOLEAN :
       maps = [m |-> NewMap(sparse, None), written |-> Without(<<>>, 0)]
  /\ ret = None
  /\ pc = "map"
  /\ g = <<>>
  /\ live = <<>>
  /\ adj = "None"
  /\ costs = <<>>
  /\ v0 = 0
  /\ queue = <<>>
  /\ distances = <<>>
  /\ cur = None
  /\ popped = <<>>
  /\ passed = <<>>
  /\ DfIdle

MapFrame == UNCHANGED <<graphVars, dfVars, costs, v0, queue, distances, cur, popped, pc, passed, live>>

\* *map.get(k)
MapGetCall ==
  /\ pc = "map"
  /\ \E k \in MapKeys :
       ret' = Some([op |-> "get", key |-> k, result |-> AnyMapGet(maps.m, k)])
  /\ UNCHANGED maps
  /\ MapFrame

\* *map.get_mut(k) = x
MapGetMutCall ==
  /\ pc = "map"
  /\ \E k \in MapKeys, x \in MapValues :
       /\ maps' = [m |-> AnyMapSet(maps.m, k, x), written |-> Put(maps.written, k, x)]
       /\ ret' = Some([op |-> "get_mut", key |-> k, value |-> x])
  /\ MapFrame

NextMap == MapGetCall \/ MapGetMutCall

SpecMap == InitMap /\ [][NextMap]_vars

\* The value last written to k, or the default.
LastWritten(k) == IF k \in DOMAIN maps.written THEN maps.written[k] ELSE maps.m.m.default

\* C28: in a dense and in a sparse map, under any sequence of get and
\* get_mut at any keys, get(k) returns the value last written through
\* get_mut(k), or the default when k was never written; a write to one key
\* leaves the value read for every other key, and get leaves the storage
\* as it was.
C28_MapReadsLastWritten ==
  [][/\ Called(ret', "get") =>
          /\ Unwrap(ret').result = LastWritten(Unwrap(ret').key)
          /\ maps'.m = maps.m
     /\ Called(ret', "get_mut") =>
          /\ AnyMapGet(maps'.m, Unwrap(ret').key) = Unwrap(ret').value
          /\ \A j \in MapKeys \ {Unwrap(ret').key} :
               AnyMapGet(maps'.m, j) = AnyMapGet(maps.m, j)]_vars

\* A dense map with nothing stored was written at key 3 and then read at
\* key 1, inside the resized storage, and the read returned the default.
C28_Witness ==
  /\ pc = "map"
  /\ ~maps.m.sparse
  /\ maps.m.m.values = <<None, None, None, Some(2)>>
  /\ DOMAIN maps.written = {3}
  /\ ret = Some([op |-> "get", key |-> 1, result |-> None])

(***************************************************************************)
(* Specification of a graph that is mutated while a vertex map and an edge *)
(* map made by vert_map(None) and edge_map(None) are held and written, as  *)
(* assert_vert_map_works and assert_edge_map_works do.                     *)
(***************************************************************************)
\* let mut vmap = g.vert_map(None); let mut emap = g.edge_map(None);
GrowCreate ==
  /\ pc = "mutate"
  /\ maps = <<>>
  /\ maps' = [vert |-> NewMap(VertsSparse(g.repr), None),
              edge |-> NewMap(EdgesSparse(g.repr), None)]
  /\ ret' = Some([op |-> "vert_map"])
  /\ UNCHANGED <<g, live, pc>>
  /\ UNCHANGED <<adj, dfVars, costs, v0, queue, distances, cur, popped, passed>>

\* *vmap.get_mut(v) = Some(v)
GrowWriteVert ==
  /\ pc = "mutate"
  /\ maps # <<>>
  /\ \E v \in Range(Verts(g)) :
       /\ maps' = [maps EXCEPT !.vert = AnyMapSet(@, v, Some(v))]
       /\ ret' = Some([op |-> "write_vert", key |-> v])
  /\ UNCHANGED <<g, live, pc>>
  /\ UNCHANGED <<adj, dfVars, costs, v0, queue, distances, cur, popped, passed>>

\* *emap.get_mut(e) = Some(e)
GrowWriteEdge ==
  /\ pc = "mutate"
  /\ maps # <<>>
  /\ \E e \in Range(Edges(g)) :
       /\ maps' = [maps EXCEPT !.edge = AnyMapSet(@, e, Some(e))]
       /\ ret' = Some([op |-> "write_edge", key |-> e])
  /\ UNCHANGED <<g, live, pc>>
  /\ UNCHANGED <<adj, dfVars, costs, v0, queue, distances, cur, popped, passed>>

NextGrow == NextMut \/ GrowCreate \/ GrowWriteVert \/ GrowWriteEdge

SpecGrow == InitMut /\ [][NextGrow]_vars

\* C29: while a map made by vert_map or edge_map is held, every vertex and
\* edge that an insertion returns reads as the default in the map, whatever
\* was inserted, removed and written before, and the insertion leaves the
\* values stored in the maps as they were.
C29_InsertedReadsDefault ==
  [][(maps # <<>> /\ pc' = "mutate") =>
       /\ Called(ret', "insert_vert") =>
            /\ AnyMapGet(maps'.vert, Unwrap(ret').result) = None
            /\ maps' = maps
       /\ Called(ret', "insert_edge") =>
            /\ AnyMapGet(maps'.edge, Unwrap(ret').result) = None
            /\ maps' = maps]_vars

(***************************************************************************)
(* Invariants of the heap between calls.                                   *)
(***************************************************************************)
\* C31: between calls, under any interleaving of try_decrease and pop, every
\* slot of the heap array holds an item, the map sends the key stored in
\* slot i to i and every key not in the heap to None, and no key occupies
\* two slots.
C31_BackMapConsistent ==
  /\ \A i \in 1..Len(queue.heap) :
       /\ IsSome(queue.heap[i])
       /\ MapGet(queue.map, Unwrap(queue.heap[i])[1]) = Some(i - 1)
  /\ \A k \in HeapKeys :
       /\ KeySlots(queue, k) = {} => MapGet(queue.map, k) = None
       /\ Cardinality(KeySlots(queue, k)) <= 1

\* Three items are left after a pop that moved the last of four from slot 3
\* to the root and sank it to slot 2; the popped key's entry is None.
C31_Witness ==
  /\ pc = "mixed"
  /\ ret = Some([op |-> "pop", result |-> Some(<<0, NewDistance(0)>>)])
  /\ queue.heap = <<Some(<<2, NewDistance(1)>>), Some(<<1, NewDistance(1)>>),
                    Some(<<3, NewDistance(2)>>)>>
  /\ MapGet(queue.map, 0) = None
  /\ MapGet(queue.map, 3) = Some(2)

\* C32: between calls, under any interleaving of try_decrease (of new keys
\* and of keys already queued) and pop, the priority in slot (i - 1) / 2 is
\* <= the priority in slot i, for every slot i > 0.
C32_HeapOrder ==
  \A i \in 1..(Len(queue.heap) - 1) :
    Leq(Unwrap(queue.heap[((i - 1) \div 2) + 1])[2], Unwrap(queue.heap[i + 1])[2])

\* The key in slot 3 was lowered below the root and went up two levels.
C32_Witness ==
  /\ pc = "mixed"
  /\ ret = Some([op |-> "try_decrease", key |-> 3, value |-> 0, result |-> TRUE])
  /\ queue.heap = <<Some(<<3, NewDistance(0)>>), Some(<<0, NewDistance(1)>>),
                    Some(<<2, NewDistance(2)>>), Some(<<1, NewDistance(2)>>)>>

(***************************************************************************)
(* Claims about the course of a Dijkstra run.                              *)
(***************************************************************************)
\* C33: during a run with non-negative costs the distances popped from the
\* heap form a non-decreasing sequence, and the distance recorded for a
\* vertex when it is popped is never overwritten later: at every later
\* moment, the end included, the map holds it.
C33_PoppedIsFinal ==
  /\ \A i \in 1..(Len(popped) - 1) : Leq(popped[i][2], popped[i + 1][2])
  /\ \A i \in 1..Len(popped) : MapGet(distances, popped[i][1]) = Some(popped[i][2])

\* A run over a cycle 0 -> 1 -> 2 -> 0 of costs 1, 0 and 3 from vertex 0 has
\* ended: three pops at distances 0, 1, 1, the last edge leading back to the
\* finished source.
C33_Witness ==
  /\ pc = "done"
  /\ adj = "Out"
  /\ g.edges = <<<<0, 1>>, <<1, 2>>, <<2, 0>>>>
  /\ costs = <<1, 0, 3>>
  /\ v0 = 0
  /\ [i \in 1..Len(popped) |-> popped[i][1]] = <<0, 1, 2>>
  /\ [i \in 1..Len(popped) |-> popped[i][2].cost] = <<0, 1, 1>>

\* A run started on any graph of up to MaxVerts vertices and MaxEdges edges.
InitDJFair ==
  /\ adj \in {"Out", "In"}
  /\ \E n \in 1..MaxVerts : \E el \in EdgeLists(n, MaxEdges) :
       /\ g = BuildGraph(ReprOf(adj), n, el)
       /\ costs \in [1..Len(el) -> CostValues]
       /\ v0 \in 0..(n - 1)
  /\ queue = DijkstraSeed(v0, NewDistance(0))
  /\ distances = MapWithCapacity(None)
  /\ cur = None
  /\ popped = <<>>
  /\ pc = "loop"
  /\ DfIdle
  /\ HpIdle
  /\ MutIdle

\* The loop of a Dijkstra run is sequential code: a step that can be taken
\* is taken.
FairSpecDJ == InitDJFair /\ [][NextDJ]_vars /\ WF_vars(NextDJ)

\* The vertices popped so far, in order.
PoppedVerts == [i \in 1..Len(popped) |-> popped[i][1]]

\* C38: a run terminates on every finite graph, cycles, self-loops,
\* zero-cost and parallel edges included: no vertex is popped twice, so
\* there are at most as many pops as vertices; an examined edge that leads
\* to a vertex with a recorded distance leaves the queue alone; and the
\* loop is left in the end.
C38_Terminates ==
  /\ [](NoDuplicates(PoppedVerts) /\ Len(popped) <= Len(g.verts))
  /\ [][(pc = "for" /\ IsSome(MapGet(distances, AdjTo(g, adj, Head(Unwrap(cur).iter)))))
          => queue' = queue]_vars
  /\ <>(pc = "done")

\* A finished run over a cycle of two zero-cost edges among three vertices:
\* both vertices of the cycle were popped once, the third never.
C38_Witness ==
  /\ pc = "done"
  /\ adj = "In"
  /\ Len(g.verts) = 3
  /\ g.edges = <<<<0, 1>>, <<1, 0>>>>
  /\ costs = <<0, 0>>
  /\ v0 = 1
  /\ PoppedVerts = <<1, 0>>

\* C39: when every cost is non-negative the assertion "negative cost edge"
\* never fails: whenever the edge about to be examined leads to a vertex
\* with a recorded distance, that distance is <= the popped distance plus
\* the cost of the edge, and the run never stops on the assertion.
C39_AssertionHolds ==
  /\ pc # "panicked"
  /\ pc = "for" =>
       LET c == Unwrap(cur)
           e == Head(c.iter)
           u_distance == MapGet(distances, AdjTo(g, adj, e))
       IN  IsSome(u_distance) =>
             Leq(Unwrap(u_distance), AddCost(c.d, CostOf(costs, e), e))

\* Adjacencies::dijkstra is about to examine a zero-cost edge that leads
\* back to the source from a vertex popped at distance 0: the two sides of
\* the assertion are equal.
C39_Witness ==
  /\ pc = "for"
  /\ adj = "In"
  /\ g.edges = <<<<0, 1>>, <<1, 0>>>>
  /\ costs = <<0, 0>>
  /\ v0 = 0
  /\ Unwrap(cur).v = 1
  /\ Unwrap(cur).d.cost = 0
  /\ Head(Unwrap(cur).iter) = 0
  /\ MapGet(distances, 0) = Some(NewDistance(0))

(***************************************************************************)
(* Specification of a sparse domain used on its own, as the test domain    *)
(* does: a client inserts values and removes keys, live or not, in any     *)
(* order.  The calls that returned are kept in events.                     *)
(***************************************************************************)
DomMaxCalls == 7

DomValues == {0, 1}

InitDomain ==
  /\ g = SparseDomainNew
  /\ ret = None
  /\ events = <<>>
  /\ pc = "domain"
  /\ df = <<>>
  /\ item = NotCalled
  /\ adj = "None"
  /\ costs = <<>>
  /\ v0 = 0
  /\ queue = <<>>
  /\ distances = <<>>
  /\ cur = None
  /\ popped = <<>>
  /\ passed = <<>>
  /\ MutIdle

DomainFrame == UNCHANGED <<adj, df, item, costs, v0, queue, distances, cur, popped, passed, mutVars>>

\* domain.insert(value)
DomainInsertCall ==
  /\ pc = "domain"
  /\ Len(events) < DomMaxCalls
  /\ \E value \in DomValues :
       LET r == SparseDomainInsert(g, value)
       IN  /\ g' = r.d
           /\ ret' = Some([op |-> "insert", result |-> r.key])
           /\ events' = IF r.ok THEN Append(events, <<"insert", r.key>>) ELSE events
           /\ pc' = IF r.ok THEN pc ELSE "panicked"
  /\ DomainFrame

\* domain.remove(key), of any key issued so far or of the next one.
DomainRemoveCall ==
  /\ pc = "domain"
  /\ Len(events) < DomMaxCalls
  /\ \E key \in 0..g.next :
       LET r == SparseDomainRemove(g, key)
       IN  /\ g' = r.d
           /\ ret' = Some([op |-> "remove", key |-> key])
           /\ events' = IF r.ok THEN Append(events, <<"remove", key>>) ELSE events
           /\ pc' = IF r.ok THEN pc ELSE "panicked"
  /\ DomainFrame

NextDomain == DomainInsertCall \/ DomainRemoveCall

SpecDomain == InitDomain /\ [][NextDomain]_vars

\* The keys removed and not issued again since, oldest removal first, after
\* one more call.
FreedStep(freed, call) ==
  IF call[1] = "remove" THEN Append(freed, call[2])
  ELSE SelectSeq(freed, LAMBDA k : k # call[2])

\* The same after a history of calls.
RECURSIVE Freed(_)
Freed(calls) ==
  IF calls = <<>> THEN <<>>
  ELSE FreedStep(Freed(SubSeq(calls, 1, Len(calls) - 1)), calls[Len(calls)])

\* C34: a sparse domain reissues keys last-freed-first: with a non-empty
\* free list insert returns the key removed most recently among those not
\* issued again and leaves the counter alone; with an empty one it returns
\* the counter and adds one to it.
C34_InsertReusesLastFreed ==
  [][(pc = "domain" /\ Called(ret', "insert")) =>
       LET key == Unwrap(ret').result
       IN  IF g.free # <<>>
           THEN /\ Freed(events) # <<>>
                /\ key = Freed(events)[Len(Freed(events))]
                /\ g'.next = g.next
           ELSE /\ key = g.next
                /\ g'.next = g.next + 1]_vars

\* Keys 0, 1 and 2 were issued, 1 and then 0 removed, and the next insert
\* returned 0; 1 is still free.
C34_Witness ==
  /\ pc = "domain"
  /\ events = <<<<"insert", 0>>, <<"insert", 1>>, <<"insert", 2>>,
                <<"remove", 1>>, <<"remove", 0>>, <<"insert", 0>>>>
  /\ ret = Some([op |-> "insert", result |-> 0])
  /\ g.free = <<1>>
  /\ g.next = 3

\* C37: in every state of a sparse domain reached by inserts and removes
\* that succeeded, the free list holds no key twice and no live key, and
\* the live keys and the free list together are the indices 0 .. next - 1.
C37_FreeListPartition ==
  pc \in {"domain", "panicked"} =>
    /\ NoDuplicates(g.free)
    /\ Range(g.free) \cap DOMAIN g.values = {}
    /\ Range(g.free) \cup DOMAIN g.values = 0..(g.next - 1)

\* Of the keys 0, 1 and 2, key 2 and then key 0 were removed and 1 is live.
C37_Witness ==
  /\ pc = "domain"
  /\ g.free = <<2, 0>>
  /\ DOMAIN g.values = {1}
  /\ g.next = 3

(***************************************************************************)
(* Claims about the marks of a traversal.                                  *)
(***************************************************************************)
\* C35: after every step of a traversal the marks agree with the frame
\* stack: a vertex is marked Open exactly when it has a frame on the stack
\* (the root of the current tree or the target of an unclosed OpenEdge), a
\* vertex whose frame was popped by CloseEdge or EndTree is marked Closed,
\* and a vertex not yet visited is marked No.
C35_MarksAgreeWithStack ==
  LET active == AncestorStack(g, adj, events)
      announced == VisitOrder(g, adj, events)
  IN  /\ Len(df.stack) = Len(active)
      /\ \A v \in 0..(Len(g.verts) - 1) :
           /\ MapGet(df.visited, v) = "Open" <=> v \in Range(active)
           /\ MapGet(df.visited, v) = "Closed"
                <=> (v \in Range(announced) /\ v \notin Range(active))
           /\ MapGet(df.visited, v) = "No" <=> v \notin Range(announced)

\* C36: remove_edge(e) of a live edge e of a sparse representation removes
\* exactly e: e leaves edges() and the adjacencies of its endpoints, while
\* the vertices, the other edges, their endpoints and their places in the
\* adjacencies stay as they were, parallel edges of e included.
C36_RemoveEdgeFrame ==
  [][(Called(ret', "remove_edge") /\ Unwrap(ret').edge \in Range(Edges(g))) =>
       LET e == Unwrap(ret').edge
       IN  /\ pc' = "mutate"
           /\ NoDuplicates(Edges(g'))
           /\ Range(Edges(g')) = Range(Edges(g)) \ {e}
           /\ Verts(g') = Verts(g)
           /\ \A x \in Range(Edges(g')) : Endpoints(g', x) = Endpoints(g, x)
           /\ \A v \in Range(Verts(g)) :
                /\ HasOut(g.repr) =>
                     /\ NoDuplicates(OutEdges(g', v))
                     /\ Range(OutEdges(g', v)) = Range(OutEdges(g, v)) \ {e}
                /\ HasIn(g.repr) =>
                     /\ NoDuplicates(InEdges(g', v))
                     /\ Range(InEdges(g', v)) = Range(InEdges(g, v)) \ {e}]_vars

\* Of two parallel edges 0 and 1 from vertex 0 to vertex 1 of a
\* SparseBiAdjacencyList, edge 0 was removed and edge 1 is where it was.
C36_Witness ==
  /\ pc = "mutate"
  /\ g.repr = "SparseBi"
  /\ ret = Some([op |-> "remove_edge", edge |-> 0])
  /\ Edges(g) = <<1>>
  /\ Endpoints(g, 1) = <<0, 1>>
  /\ OutEdges(g, 0) = <<1>>
  /\ InEdges(g, 1) = <<1>>
  /\ InEdges(g, 0) = <<>>

(***************************************************************************)
(* Specification of a graph under mutation by a client that also passes    *)
(* to insert_edge vertices it does not hold: removed or never issued.      *)
(***************************************************************************)
\* insert_edge with any handles: the pair is stored in edges first; then
\* self.verts[tail] is indexed by the representations with out-adjacency
\* and self.verts[head] by those with in-adjacency, and indexing a key
\* that is not in the domain panics.  The edge list indexes neither.
InsertEdgeAny(gr, tail, head) ==
  LET ins == EdgesInsert(gr, tail, head)
      pushed == IF ~HasOut(gr.repr) THEN ins.g
                ELSE IF VertsSparse(gr.repr)
                THEN WithVertValue(ins.g, tail, <<VertValue(ins.g, tail)[1] \cup {ins.key},
                                                  VertValue(ins.g, tail)[2]>>)
                ELSE WithVertValue(ins.g, tail, <<Append(VertValue(ins.g, tail)[1], ins.key),
                                                  VertValue(ins.g, tail)[2]>>)
  IN  IF HasOut(gr.repr) /\ ~HasVert(gr, tail)
      THEN [key |-> ins.key, ok |-> FALSE, g |-> ins.g]
      ELSE IF HasIn(gr.repr) /\ ~HasVert(gr, head)
      THEN [key |-> ins.key, ok |-> FALSE, g |-> pushed]
      ELSE InsertEdgeResult(gr, tail, head)

\* let e = g.insert_edge(tail, head) with a tail or a head that the client
\* does not hold.  When the call returns, the client holds an edge at a
\* vertex that does not exist and the run is followed no further.
MutInsertEdgeAny ==
  /\ pc = "mutate"
  /\ Cardinality(DOMAIN live.edges) < MutMaxEdges
  /\ \E tail \in 0..MaxVerts, head \in 0..MaxVerts :
       /\ tail \notin live.verts \/ head \notin live.verts
       /\ LET r == InsertEdgeAny(g, tail, head)
          IN  /\ g' = r.g
              /\ ret' = Some([op |-> "insert_edge", tail |-> tail, head |-> head,
                              result |-> r.key])
              /\ live' = IF r.ok THEN [live EXCEPT !.edges = Put(@, r.key, <<tail, head>>)]
                         ELSE live
              /\ pc' = IF r.ok THEN "dangling" ELSE "panicked"
  /\ MutFrame

NextMutAny == NextMut \/ MutInsertEdgeAny

SpecMutAny == InitMut /\ [][NextMutAny]_vars

\* C40: for every insertable representation insert_edge(tail, head) with a
\* tail or a head that is not a live vertex fails fast and returns no edge,
\* so that every edge of edges() has both endpoints in verts().
C40_DeadEndpointFailsFast ==
  /\ (/\ Called(ret, "insert_edge")
      /\ ~HasVert(g, Unwrap(ret).tail) \/ ~HasVert(g, Unwrap(ret).head))
       => pc = "panicked"
  /\ pc # "panicked" =>
       \A e \in Range(Edges(g)) :
         /\ Endpoints(g, e)[1] \in Range(Verts(g))
         /\ Endpoints(g, e)[2] \in Range(Verts(g))

====
